---------------------------- MODULE Spec2Model ----------------------------
(***************************************************************************)
(* Model of the daikin-controller scheduler (src/lib/server/scheduler.ts)  *)
(* and of the persistence, price and device helpers it calls.              *)
(*                                                                         *)
(* Numbers: JavaScript numbers are modelled as exact rationals <<n, d>>    *)
(* (d > 0, lowest terms).  Timestamps are counted in quarter hours since   *)
(* 00:00 UTC of day 0, so that a price source may deliver several points   *)
(* per hour.                                                               *)
(***************************************************************************)
EXTENDS Integers, Sequences, FiniteSets, TLC

VARIABLES
    pstage,     \* planner harness: "input", "heating" or "dhw"
    pin,        \* planner harness: the arguments (prices, weather, settings)
    pout,       \* planner harness: the returned plan
    now,        \* the clock: hours since 00:00 UTC of day 0
    tz,         \* the server's offset from UTC in hours
    elering,    \* the price points Elering has published
    database,   \* the database: settings, prices, forecasts, plans, logs
    device,     \* per account, the heat pump as the Daikin cloud reports it
    ticks,      \* the runs of executeScheduledTask so far
    updates,    \* the settings forms submitted so far
    last        \* the record of the run just finished (NoTick after other steps)

pvars == <<pstage, pin, pout>>
ovars == <<now, tz, elering, database, device, ticks, updates, last>>
vars == <<pstage, pin, pout, now, tz, elering, database, device, ticks, updates, last>>

----------------------------------------------------------------------------
(* Bounds of the planner harness *)

MaxPoints == 4          \* longest price list given to a planner

(* K_DHW, the fixed sensitivity of the hot-water planner *)
K_DHW == 3

(* Calendar arithmetic of Date *)
QuartersPerHour == 4
HoursPerDay == 24

(* A nullable or optional number is <<>> (null, undefined) or <<v>> *)
Null == <<>>
Undefined == <<>>
Num(v) == <<v>>

(* a missing userId *)
NoUser == ""

----------------------------------------------------------------------------
(* Exact arithmetic standing for JavaScript numbers *)

Abs(x) == IF x < 0 THEN -x ELSE x

RECURSIVE Gcd(_, _)
Gcd(a, b) == IF b = 0 THEN a ELSE Gcd(b, a % b)

Rat(n, d) ==
    LET s == IF d < 0 THEN -1 ELSE 1
        g == Gcd(Abs(n), Abs(d))
    IN  <<(s * n) \div g, (s * d) \div g>>

FromInt(i) == <<i, 1>>
RAdd(a, b) == Rat(a[1] * b[2] + b[1] * a[2], a[2] * b[2])
RSub(a, b) == Rat(a[1] * b[2] - b[1] * a[2], a[2] * b[2])
RMul(a, b) == Rat(a[1] * b[1], a[2] * b[2])
RDiv(a, b) == Rat(a[1] * b[2], a[2] * b[1])
(* a comparison that lets equal values pass as smaller *)
RLtOrEqual(a, b) == a[1] * b[2] <= b[1] * a[2]
RLt(a, b) == a[1] * b[2] < b[1] * a[2]
(* a comparison that turns equal values away *)
RLessOnly(a, b) == a[1] * b[2] < b[1] * a[2]
RLe(a, b) == a[1] * b[2] <= b[1] * a[2]
RMin(a, b) == IF RLt(b, a) THEN b ELSE a
RMax(a, b) == IF RLt(a, b) THEN b ELSE a
IsInteger(a) == a[2] = 1

(* Math.floor *)
MathFloor(a) == a[1] \div a[2]

(* Math.ceil *)
MathCeil(a) == -((-a[1]) \div a[2])

(* A rounding that subtracts the half instead of adding it *)
MathRoundDown(a) == MathFloor(RSub(a, <<1, 2>>))

(* Math.round: the nearest integer, a half rounding towards +Infinity *)
MathRound(a) == MathFloor(RAdd(a, <<1, 2>>))

----------------------------------------------------------------------------
(* Timestamps and calendar slots *)

(* new Date(ts).toISOString().split('T')[0] *)
DateOf(ts) == ts \div (QuartersPerHour * HoursPerDay)

(* new Date(ts).getUTCHours() *)
UTCHours(ts) == (ts \div QuartersPerHour) % HoursPerDay

(* the key `${dateStr}-${hour}` *)
SlotKey(ts) == <<DateOf(ts), UTCHours(ts)>>

(* eurMwhToCentKwh *)
eurMwhToCentKwh(eurMwh) == Rat(eurMwh, 10)

RECURSIVE SumRat(_)
SumRat(s) == IF s = <<>> THEN <<0, 1>> ELSE RAdd(Head(s), SumRat(Tail(s)))

(* hourlyPrices: insertion-ordered map key -> {prices, date, hour} *)
RECURSIVE hourlyPrices(_, _)
hourlyPrices(prices, acc) ==
    IF prices = <<>> THEN acc
    ELSE LET p == Head(prices)
             key == SlotKey(p.timestamp)
             c == eurMwhToCentKwh(p.price_eur_mwh)
             hit == {i \in 1..Len(acc) : acc[i].key = key}
         IN  IF hit = {}
             THEN hourlyPrices(Tail(prices),
                      Append(acc, [key |-> key, date |-> DateOf(p.timestamp),
                                   hour |-> UTCHours(p.timestamp), prices |-> <<c>>]))
             ELSE LET i == CHOOSE j \in hit : TRUE
                  IN  hourlyPrices(Tail(prices),
                          [acc EXCEPT ![i].prices = Append(@, c)])

(* pricesCentKwh: the average price of every slot *)
pricesCentKwh(prices) ==
    LET m == hourlyPrices(prices, <<>>)
    IN  [i \in 1..Len(m) |->
            [key |-> m[i].key, date |-> m[i].date, hour |-> m[i].hour,
             price |-> RDiv(SumRat(m[i].prices), FromInt(Len(m[i].prices)))]]

(* Array.prototype.sort((a, b) => a.price - b.price): stable, ascending *)
RECURSIVE InsertByPrice(_, _)
InsertByPrice(x, s) ==
    IF s = <<>> THEN <<x>>
    ELSE IF RLt(x.price, Head(s).price) THEN <<x>> \o s
    ELSE <<Head(s)>> \o InsertByPrice(x, Tail(s))

RECURSIVE SortByPrice(_)
SortByPrice(s) ==
    IF s = <<>> THEN <<>>
    ELSE InsertByPrice(s[Len(s)], SortByPrice(SubSeq(s, 1, Len(s) - 1)))

(* sortedPrices: the slot prices in ascending order *)
sortedPrices(pc) == LET s == SortByPrice(pc) IN [i \in 1..Len(s) |-> s[i].price]

(* a median that takes the lower middle element of an even count *)
medianLower(sorted) == sorted[((Len(sorted) - 1) \div 2) + 1]

(* medianPrice = sortedPrices[Math.floor(sortedPrices.length / 2)] *)
medianPrice(sorted) == sorted[(Len(sorted) \div 2) + 1]

(* halfSpread = priceSpread > 0 ? priceSpread / 2 : 1 *)
halfSpread(sorted) ==
    LET priceSpread == RSub(sorted[Len(sorted)], sorted[1])
    IN  IF RLt(<<0, 1>>, priceSpread) THEN RDiv(priceSpread, <<2, 1>>) ELSE <<1, 1>>

(* normalizedDeviation = max(-1, min(1, (price - median) / halfSpread)) *)
normalizedDeviation(price, sorted) ==
    LET deviation == RDiv(RSub(price, medianPrice(sorted)), halfSpread(sorted))
    IN  RMax(<<-1, 1>>, RMin(<<1, 1>>, deviation))

(* cheapestHalfKeys: keys of the first ceil(n/2) slots by price *)
cheapestHalfKeys(pc) ==
    LET s == SortByPrice(pc)
        n == MathCeil(Rat(Len(s), 2))
    IN  {s[i].key : i \in 1..n}

(* weatherByKey.get(key) ?? null; a later forecast of a slot replaces an earlier *)
weatherByKey(weather, key) ==
    LET hit == {i \in 1..Len(weather) : SlotKey(weather[i].timestamp) = key}
    IN  IF hit = {} THEN Null
        ELSE Num(weather[CHOOSE i \in hit : \A j \in hit : j <= i].temperature_2m)

(* the price bucket of the reason string *)
pricePosition(price, sorted) ==
    LET n == Len(sorted)
    IN  IF RLe(price, sorted[((n * 25) \div 100) + 1]) THEN "odav"
        ELSE IF RLe(sorted[((n * 75) \div 100) + 1], price) THEN "kallis"
        ELSE "keskmine"

(* Number.prototype.toFixed(1), as a count of tenths *)
toFixed1(a) ==
    LET t == RMul(a, <<10, 1>>)
    IN  IF RLt(t, <<0, 1>>) THEN -MathRound(<<-t[1], t[2]>>) ELSE MathRound(t)

(* sort by date, then hour *)
RECURSIVE InsertBySlot(_, _)
InsertBySlot(x, s) ==
    IF s = <<>> THEN <<x>>
    ELSE IF x.date < Head(s).date \/ (x.date = Head(s).date /\ x.hour < Head(s).hour)
         THEN <<x>> \o s
    ELSE <<Head(s)>> \o InsertBySlot(x, Tail(s))

RECURSIVE SortBySlot(_)
SortBySlot(s) ==
    IF s = <<>> THEN <<>>
    ELSE InsertBySlot(s[Len(s)], SortBySlot(SubSeq(s, 1, Len(s) - 1)))

(* the offset of a slot after the 50% guarantee: 0 for a slot of the       *)
(* cheapest half whose raw offset -K * normalizedDeviation is negative      *)
guaranteed(h, pc, settings) ==
    /\ h.key \in cheapestHalfKeys(pc)
    /\ RLt(RMul(<<-settings.price_sensitivity, 1>>,
                normalizedDeviation(h.price, sortedPrices(pc))), <<0, 1>>)

fairOffset(h, pc, settings) ==
    IF guaranteed(h, pc, settings) THEN <<0, 1>>
    ELSE RMul(<<-settings.price_sensitivity, 1>>,
              normalizedDeviation(h.price, sortedPrices(pc)))

(* outdoorTemp !== null && outdoorTemp < coldThreshold && offset < 0; a     *)
(* comparison with an undefined threshold is false                          *)
coldApplies(offset, outdoorTemp, coldThreshold) ==
    /\ outdoorTemp # Null
    /\ coldThreshold # Undefined
    /\ outdoorTemp[1] < coldThreshold[1]
    /\ RLt(offset, <<0, 1>>)

(* a relaxation that forgives the whole penalty at coldThreshold - 10 *)
fullRelaxation(outdoorTemp, coldThreshold) ==
    RMin(<<1, 1>>, Rat(coldThreshold[1] - outdoorTemp[1], 10))

(* adjustment = 0.5 * Math.min(1, (coldThreshold - outdoorTemp) / 10) *)
coldAdjustment(outdoorTemp, coldThreshold) ==
    RMul(<<1, 2>>, RMin(<<1, 1>>, Rat(coldThreshold[1] - outdoorTemp[1], 10)))

(* the offset after the cold weather adjustment, not yet clamped or rounded *)
coldOffset(offset, outdoorTemp, coldThreshold) ==
    IF coldApplies(offset, outdoorTemp, coldThreshold)
    THEN RMul(offset, RSub(<<1, 1>>, coldAdjustment(outdoorTemp, coldThreshold)))
    ELSE offset

(* one entry of plannedHours in calculatePriceProportionalOffsets *)
plannedHeatingHour(h, pc, weather, settings) ==
    LET sorted == sortedPrices(pc)
        coldThreshold == settings.cold_weather_threshold
        outdoorTemp == weatherByKey(weather, h.key)
        guarantee == guaranteed(h, pc, settings)
        offset1 == fairOffset(h, pc, settings)
        cold == coldApplies(offset1, outdoorTemp, coldThreshold)
        offset2 == coldOffset(offset1, outdoorTemp, coldThreshold)
        finalOffset == MathRound(RMax(<<-10, 1>>, RMin(<<10, 1>>, offset2)))
    IN  [date |-> h.date,
         hour |-> h.hour,
         planned_offset |-> finalOffset,
         outdoor_temp_forecast |-> outdoorTemp,
         price_cent_kwh |-> h.price,
         reason |-> [price |-> toFixed1(h.price),
                     position |-> pricePosition(h.price, sorted),
                     temp |-> outdoorTemp,
                     extras |-> (IF guarantee THEN <<"50% garantii">> ELSE <<>>)
                                \o (IF cold THEN <<"kulm ilm">> ELSE <<>>)]]

(* calculatePriceProportionalOffsets(prices, weather, settings) *)
calculatePriceProportionalOffsets(prices, weather, settings) ==
    IF Len(prices) = 0 THEN <<>>
    ELSE LET pc == pricesCentKwh(prices)
         IN  SortBySlot([i \in 1..Len(pc) |->
                            plannedHeatingHour(pc[i], pc, weather, settings)])

(* one entry of plannedHours in calculateDHWProportionalTemps *)
plannedDHWHour(h, pc, settings) ==
    LET sorted == sortedPrices(pc)
        minTemp == settings.dhw_min_temp
        maxTemp == settings.dhw_target_temp
        midTemp == RDiv(RAdd(minTemp, maxTemp), <<2, 1>>)
        tempRange == RSub(maxTemp, minTemp)
        tempOffset == RMul(RMul(<<-K_DHW, 1>>, normalizedDeviation(h.price, sorted)),
                           RDiv(tempRange, <<20, 1>>))
        rawTemp == RAdd(midTemp, tempOffset)
        guarantee == h.key \in cheapestHalfKeys(pc) /\ RLt(rawTemp, midTemp)
        temp == IF guarantee THEN midTemp ELSE rawTemp
        finalTemp == MathRound(RMax(minTemp, RMin(maxTemp, temp)))
    IN  [date |-> h.date,
         hour |-> h.hour,
         planned_temp |-> finalTemp,
         price_cent_kwh |-> h.price,
         reason |-> [price |-> toFixed1(h.price),
                     position |-> pricePosition(h.price, sorted),
                     extras |-> IF guarantee THEN <<"50% garantii">> ELSE <<>>]]

(* calculateDHWProportionalTemps(prices, settings) *)
calculateDHWProportionalTemps(prices, settings) ==
    IF Len(prices) = 0 THEN <<>>
    ELSE LET pc == pricesCentKwh(prices)
         IN  SortBySlot([i \in 1..Len(pc) |-> plannedDHWHour(pc[i], pc, settings)])

----------------------------------------------------------------------------
(* JavaScript numbers as they are: IEEE-754 doubles.  A positive double is *)
(* [m, e] with value m * 2^e, where m is its 53-bit significand,           *)
(* 2^52 <= m < 2^53, held in three limbs <<high, middle, low>> of 21 bits. *)
(* Results are rounded to nearest, ties to even.                           *)

MantissaBits == 53

RECURSIVE Pow2(_)
Pow2(s) == IF s = 0 THEN 1 ELSE 2 * Pow2(s - 1)

RECURSIVE BitLen(_)
BitLen(n) == IF n = 0 THEN 0 ELSE 1 + BitLen(n \div 2)

LimbBits == (MantissaBits + 10) \div 3
Limb == Pow2(LimbBits)

(* bits of the high limb of a significand *)
HighBits == MantissaBits - 2 * LimbBits

(* bits kept below the significand when dividing *)
GuardBits == LimbBits - HighBits - 2

(* N * 2^s in limbs, for small s *)
ShiftLeft(N, s) ==
    LET lo == N[3] * Pow2(s)
        mi == N[2] * Pow2(s) + lo \div Limb
    IN  <<N[1] * Pow2(s) + mi \div Limb, mi % Limb, lo % Limb>>

(* N \div 2^s in limbs, for s up to the width of a limb *)
ShiftRight(N, s) ==
    <<N[1] \div Pow2(s),
      N[2] \div Pow2(s) + (N[1] % Pow2(s)) * (Limb \div Pow2(s)),
      N[3] \div Pow2(s) + (N[2] % Pow2(s)) * (Limb \div Pow2(s))>>

(* N + M in limbs *)
AddLimbs(N, M) ==
    LET lo == N[3] + M[3]
        mi == N[2] + M[2] + lo \div Limb
    IN  <<N[1] + M[1] + mi \div Limb, mi % Limb, lo % Limb>>

(* N \div n and N % n for a small n *)
DivLimbs(N, n) ==
    LET r1 == N[1] % n
        r2 == (r1 * Limb + N[2]) % n
    IN  [quot |-> <<N[1] \div n, (r1 * Limb + N[2]) \div n, (r2 * Limb + N[3]) \div n>>,
         rem |-> (r2 * Limb + N[3]) % n]

(* the double nearest to N * 2^e (plus something below the last bit of N   *)
(* when sticky), ties to even, for N of at least 53 bits                   *)
RoundLimbs(N, e, sticky) ==
    LET s == BitLen(N[1]) - HighBits
        kept == ShiftRight(N, s)
        dropped == N[3] % Pow2(s)
        half == IF s = 0 THEN 0 ELSE Pow2(s - 1)
        up == /\ s > 0
              /\ \/ dropped > half
                 \/ dropped = half /\ (sticky \/ kept[3] % 2 = 1)
        m1 == IF up THEN AddLimbs(kept, <<0, 0, 1>>) ELSE kept
    IN  IF BitLen(m1[1]) > HighBits
        THEN [m |-> ShiftRight(m1, 1), e |-> e + s + 1]
        ELSE [m |-> m1, e |-> e + s]

(* the double of n/d, two small positive integers: p.price_eur_mwh / 10 *)
doubleOf(r) ==
    LET F == 3 * LimbBits - 1 - BitLen(r[1] \div r[2])
        T == r[1] * Pow2(F - 2 * LimbBits)
        r1 == T % r[2]
        r2 == (r1 * Limb) % r[2]
    IN  RoundLimbs(<<T \div r[2], (r1 * Limb) \div r[2], (r2 * Limb) \div r[2]>>,
                   -F, (r2 * Limb) % r[2] # 0)

(* a + b, for doubles whose exponents are fewer than 10 apart *)
addDouble(a, b) ==
    IF a.e < b.e
    THEN RoundLimbs(AddLimbs(a.m, ShiftLeft(b.m, b.e - a.e)), a.e, FALSE)
    ELSE RoundLimbs(AddLimbs(ShiftLeft(a.m, a.e - b.e), b.m), b.e, FALSE)

(* a / n for a small positive integer n *)
divDouble(a, n) ==
    RoundLimbs(DivLimbs(ShiftLeft(a.m, GuardBits), n).quot, a.e - GuardBits,
               DivLimbs(ShiftLeft(a.m, GuardBits), n).rem # 0)

(* data.prices.reduce((a, b) => a + b, 0): 0 + x is x *)
RECURSIVE sumDoubles(_)
sumDoubles(s) ==
    IF Len(s) = 1 THEN s[1]
    ELSE addDouble(sumDoubles(SubSeq(s, 1, Len(s) - 1)), s[Len(s)])

(* data.prices.reduce((a, b) => a + b, 0) / data.prices.length *)
averageDouble(s) == divDouble(sumDoubles(s), Len(s))

(* a - b counted in units of the last place of the finer of the two, for   *)
(* doubles a few such units apart                                          *)
ulpsBetween(a, b) ==
    LET A == IF a.e > b.e THEN ShiftLeft(a.m, a.e - b.e) ELSE a.m
        B == IF b.e > a.e THEN ShiftLeft(b.m, b.e - a.e) ELSE b.m
    IN  ((A[1] - B[1]) * Limb + (A[2] - B[2])) * Limb + (A[3] - B[3])

(* pricesCentKwh as the engine computes it: each price divided by 10, the   *)
(* prices of a slot summed left to right and divided by their count, every *)
(* step rounded to a double                                                *)
pricesCentKwhDouble(prices) ==
    LET m == hourlyPrices(prices, <<>>)
    IN  [i \in 1..Len(m) |->
            [key |-> m[i].key, date |-> m[i].date, hour |-> m[i].hour,
             price |-> averageDouble([j \in 1..Len(m[i].prices) |->
                                         doubleOf(m[i].prices[j])])]]

(* priceSpread > 0, on the averages as doubles *)
spreadPositive(pcd) == \E i, j \in 1..Len(pcd) : pcd[i].price # pcd[j].price

(* The offsets of slot averages a few units of the last place apart.  The  *)
(* deviation (price - median) / halfSpread, the 50% guarantee and the      *)
(* price position use the prices only through their order and the ratios   *)
(* of their differences, and differences of doubles this close are exact:  *)
(* the slots are handed on with their distance from the first slot, in     *)
(* units of the last place, as price.                                      *)
offsetsOfAverages(pcd, weather, settings) ==
    LET pc == [i \in 1..Len(pcd) |->
                  [pcd[i] EXCEPT !.price = FromInt(ulpsBetween(pcd[i].price, pcd[1].price))]]
        plan == SortBySlot([i \in 1..Len(pc) |->
                               plannedHeatingHour(pc[i], pc, weather, settings)])
    IN  [i \in 1..Len(plan) |->
            [date |-> plan[i].date, hour |-> plan[i].hour,
             planned_offset |-> plan[i].planned_offset]]

----------------------------------------------------------------------------
(* Clock: now counts hours since 00:00 UTC of day 0; the server's local     *)
(* time is now + tz hours.                                                 *)

(* now.getHours() *)
getHours(t, zone) == (t + zone) % HoursPerDay

(* now.getUTCHours() *)
getUTCHours(t) == t % HoursPerDay

(* now.toISOString().split('T')[0] *)
todayStr(t) == t \div HoursPerDay

(* new Date(y, m, d): local midnight of the local day of t, as a timestamp *)
startOfLocalDay(t, zone) ==
    (((t + zone) \div HoursPerDay) * HoursPerDay - zone) * QuartersPerHour

DayLength == HoursPerDay * QuartersPerHour

----------------------------------------------------------------------------
(* Persistence helpers (db.ts) *)

SettingKeys ==
    {"planning_hour", "planning_needs_retry", "price_sensitivity", "cold_weather_threshold",
     "low_price_threshold", "dhw_enabled", "dhw_min_temp", "dhw_target_temp",
     "min_water_temp", "best_price_window_hours"}

(* USER_SPECIFIC_SETTINGS *)
USER_SPECIFIC_SETTINGS ==
    {"price_sensitivity", "planning_hour", "low_price_threshold", "dhw_min_temp",
     "dhw_target_temp", "weather_location_lat", "weather_location_lon",
     "planning_needs_retry"}

(* a table of settings holds, per key, no row (<<>>) or the row's value (<<v>>) *)
NoRows == [k \in SettingKeys |-> <<>>]

(* settingsMap.get(key) || fallback *)
OrDefault(row, fallback) == IF row = <<>> THEN fallback ELSE row[1]

(* the user rows laid over the global rows *)
settingsMap(global, userRows) ==
    [k \in SettingKeys |-> IF userRows[k] # <<>> THEN userRows[k] ELSE global[k]]

(* getUserSettings(db, userId): the returned object has no cold_weather_threshold *)
getUserSettings(db, userId) ==
    LET m == settingsMap(db.settings, db.user_settings[userId])
    IN  [low_price_threshold |-> OrDefault(m["low_price_threshold"], <<5, 1>>),
         min_water_temp |-> OrDefault(m["min_water_temp"], <<20, 1>>),
         best_price_window_hours |-> OrDefault(m["best_price_window_hours"], 6),
         dhw_enabled |-> (m["dhw_enabled"] = <<"true">>),
         dhw_min_temp |-> OrDefault(m["dhw_min_temp"], <<30, 1>>),
         dhw_target_temp |-> OrDefault(m["dhw_target_temp"], <<60, 1>>),
         price_sensitivity |-> OrDefault(m["price_sensitivity"], 7),
         planning_hour |-> OrDefault(m["planning_hour"], 15),
         planning_needs_retry |-> (m["planning_needs_retry"] = <<"true">>),
         cold_weather_threshold |-> Undefined]

(* getSettings(db): the global rows alone; no cold_weather_threshold either *)
getSettings(db) ==
    LET m == db.settings
    IN  [low_price_threshold |-> OrDefault(m["low_price_threshold"], <<5, 1>>),
         min_water_temp |-> OrDefault(m["min_water_temp"], <<20, 1>>),
         best_price_window_hours |-> OrDefault(m["best_price_window_hours"], 6),
         dhw_enabled |-> (m["dhw_enabled"] = <<"true">>),
         dhw_min_temp |-> OrDefault(m["dhw_min_temp"], <<30, 1>>),
         dhw_target_temp |-> OrDefault(m["dhw_target_temp"], <<60, 1>>),
         price_sensitivity |-> OrDefault(m["price_sensitivity"], 7),
         planning_hour |-> OrDefault(m["planning_hour"], 15),
         planning_needs_retry |-> (m["planning_needs_retry"] = <<"true">>),
         cold_weather_threshold |-> Undefined]

(* userId ? await getUserSettings(db, userId) : await getSettings(db) *)
settingsOf(db, userId) ==
    IF userId = NoUser THEN getSettings(db) ELSE getUserSettings(db, userId)

(* updateSetting(db, key, value) *)
updateSetting(db, key, value) ==
    [db EXCEPT !.settings[key] = <<value>>]

(* updateUserSetting(db, userId, key, value) *)
updateUserSetting(db, userId, key, value) ==
    IF key \in USER_SPECIFIC_SETTINGS
    THEN [db EXCEPT !.user_settings[userId][key] = <<value>>]
    ELSE updateSetting(db, key, value)

(* ORDER BY timestamp *)
RECURSIVE OrderByTimestamp(_)
OrderByTimestamp(rows) ==
    IF rows = {} THEN <<>>
    ELSE LET m == CHOOSE r \in rows : \A q \in rows : r.timestamp <= q.timestamp
         IN  <<m>> \o OrderByTimestamp(rows \ {m})

(* getPricesForRange / getWeatherForRange: start <= timestamp < end *)
getPricesForRange(rows, start, end) ==
    OrderByTimestamp({r \in rows : r.timestamp >= start /\ r.timestamp < end})

SeqToSet(s) == {s[i] : i \in 1..Len(s)}

(* savePrices / saveWeatherForecast: upsert on timestamp *)
savePrices(rows, fresh) ==
    {r \in rows : \A i \in 1..Len(fresh) : fresh[i].timestamp # r.timestamp}
        \cup SeqToSet(fresh)

(* a save that inserts its rows and leaves the rows it finds *)
insertHeatingSchedule(rows, date, hours, userId) ==
    rows \cup {[user_id |-> userId, date |-> date, hour |-> hours[i].hour,
                planned_offset |-> hours[i].planned_offset,
                outdoor_temp_forecast |-> hours[i].outdoor_temp_forecast,
                price_cent_kwh |-> hours[i].price_cent_kwh,
                reason |-> hours[i].reason, applied_at |-> Null] : i \in 1..Len(hours)}

(* saveHeatingSchedule: upsert on (user_id, date, hour), applied_at cleared *)
RECURSIVE saveHeatingSchedule(_, _, _, _)
saveHeatingSchedule(rows, date, hours, userId) ==
    IF hours = <<>> THEN rows
    ELSE LET h == Head(hours)
             row == [user_id |-> userId, date |-> date, hour |-> h.hour,
                     planned_offset |-> h.planned_offset,
                     outdoor_temp_forecast |-> h.outdoor_temp_forecast,
                     price_cent_kwh |-> h.price_cent_kwh,
                     reason |-> h.reason, applied_at |-> Null]
             kept == {r \in rows : ~(r.user_id = userId /\ r.date = date /\ r.hour = h.hour)}
         IN  saveHeatingSchedule(kept \cup {row}, date, Tail(hours), userId)

(* saveDHWSchedule: upsert on (user_id, date, hour), applied_at cleared *)
RECURSIVE saveDHWSchedule(_, _, _, _)
saveDHWSchedule(rows, date, hours, userId) ==
    IF hours = <<>> THEN rows
    ELSE LET h == Head(hours)
             row == [user_id |-> userId, date |-> date, hour |-> h.hour,
                     planned_temp |-> h.planned_temp,
                     price_cent_kwh |-> h.price_cent_kwh,
                     reason |-> h.reason, applied_at |-> Null]
             kept == {r \in rows : ~(r.user_id = userId /\ r.date = date /\ r.hour = h.hour)}
         IN  saveDHWSchedule(kept \cup {row}, date, Tail(hours), userId)

(* getPlannedOffsetForHour: row?.planned_offset ?? null *)
getPlannedOffsetForHour(rows, date, hour, userId) ==
    LET hit == {r \in rows : /\ (userId = NoUser \/ r.user_id = userId)
                             /\ r.date = date /\ r.hour = hour}
    IN  IF hit = {} THEN Null ELSE Num((CHOOSE r \in hit : TRUE).planned_offset)

(* getPlannedDHWTempForHour: row?.planned_temp ?? null *)
getPlannedDHWTempForHour(rows, date, hour, userId) ==
    LET hit == {r \in rows : /\ (userId = NoUser \/ r.user_id = userId)
                             /\ r.date = date /\ r.hour = hour}
    IN  IF hit = {} THEN Null ELSE Num((CHOOSE r \in hit : TRUE).planned_temp)

(* markHeatingScheduleApplied / markDHWScheduleApplied *)
markScheduleApplied(rows, date, hour, userId, t) ==
    {IF (userId = NoUser \/ r.user_id = userId) /\ r.date = date /\ r.hour = hour
     THEN [r EXCEPT !.applied_at = Num(t)] ELSE r : r \in rows}

(* cleanupOldSchedules: rows older than 7 days go *)
RetentionDays == 7
cleanupOldSchedules(rows, userId, t) ==
    {r \in rows : ~((userId = NoUser \/ r.user_id = userId)
                     /\ r.date < todayStr(t - RetentionDays * HoursPerDay))}

----------------------------------------------------------------------------
(* Price and weather sources (elering.ts, weather.ts).  A call that can    *)
(* throw returns [ok |-> FALSE, ...]; the database it leaves is part of    *)
(* the result.                                                             *)

(* fetchEleringPrices(start, end): the published points of the range *)
fetchEleringPrices(api, start, end) ==
    OrderByTimestamp({r \in api : r.timestamp >= start /\ r.timestamp < end})

(* getTodayPrices(db) *)
getTodayPrices(db, t, zone, api, faults) ==
    LET start == startOfLocalDay(t, zone)
        end == start + DayLength
        cached == getPricesForRange(db.prices, start, end)
        fresh == fetchEleringPrices(api, start, end)
    IN  IF Len(cached) < 24
        THEN IF "elering" \in faults
             THEN [ok |-> FALSE, prices |-> <<>>, db |-> db]
             ELSE [ok |-> TRUE, prices |-> fresh,
                   db |-> [db EXCEPT !.prices = savePrices(@, fresh)]]
        ELSE [ok |-> TRUE, prices |-> cached, db |-> db]

(* getTomorrowPrices(db): a failed fetch is swallowed *)
getTomorrowPrices(db, t, zone, api, faults) ==
    LET start == startOfLocalDay(t, zone) + DayLength
        end == start + DayLength
        cached == getPricesForRange(db.prices, start, end)
        hour == getUTCHours(t) + 2
        fresh == fetchEleringPrices(api, start, end)
    IN  IF Len(cached) < 24 /\ hour >= 14 /\ "elering" \notin faults /\ Len(fresh) > 0
        THEN [ok |-> TRUE, prices |-> fresh,
              db |-> [db EXCEPT !.prices = savePrices(@, fresh)]]
        ELSE [ok |-> TRUE, prices |-> cached, db |-> db]

(* getCurrentHourPrice(db): the price in EUR/MWh, or null *)
getCurrentHourPrice(db, t, zone, api, faults) ==
    LET hourStart == t * QuartersPerHour
        hourEnd == hourStart + QuartersPerHour
        cached == getPricesForRange(db.prices, hourStart, hourEnd)
        today == getTodayPrices(db, t, zone, api, faults)
        again == getPricesForRange(today.db.prices, hourStart, hourEnd)
    IN  IF Len(cached) = 0
        THEN IF ~today.ok THEN [ok |-> FALSE, price |-> Null, db |-> today.db]
             ELSE [ok |-> TRUE,
                   price |-> IF Len(again) = 0 THEN Null ELSE Num(again[1].price_eur_mwh),
                   db |-> today.db]
        ELSE [ok |-> TRUE, price |-> Num(cached[1].price_eur_mwh), db |-> db]

(* a lookup that gives up the cached forecasts when the fetch fails *)
getFetchedWeatherOnly(db, date, zone, meteo, faults) ==
    LET start == startOfLocalDay(date * HoursPerDay, zone)
        end == start + DayLength
        cached == getPricesForRange(db.weather_forecast, start, end)
    IN  IF Len(cached) < 24 /\ "open_meteo" \notin faults
        THEN [forecasts |-> getPricesForRange(meteo, start, end),
              db |-> [db EXCEPT !.weather_forecast = savePrices(@, OrderByTimestamp(meteo))]]
        ELSE [forecasts |-> <<>>, db |-> db]

(* getWeatherForDate(db, date): a failed fetch leaves the cached forecasts *)
getWeatherForDate(db, date, zone, meteo, faults) ==
    LET start == startOfLocalDay(date * HoursPerDay, zone)
        end == start + DayLength
        cached == getPricesForRange(db.weather_forecast, start, end)
        fresh == OrderByTimestamp(meteo)
    IN  IF Len(cached) < 24 /\ "open_meteo" \notin faults
        THEN [forecasts |-> getPricesForRange(meteo, start, end),
              db |-> [db EXCEPT !.weather_forecast = savePrices(@, fresh)]]
        ELSE [forecasts |-> cached, db |-> db]

----------------------------------------------------------------------------
(* Daily planning (scheduler.ts) *)

(* the dates of a plan in order of first appearance (keys of heatingByDate) *)
RECURSIVE datesOf(_, _)
datesOf(hours, acc) ==
    IF hours = <<>> THEN acc
    ELSE IF \E i \in 1..Len(acc) : acc[i] = Head(hours).date
         THEN datesOf(Tail(hours), acc)
         ELSE datesOf(Tail(hours), Append(acc, Head(hours).date))

hoursOfDate(hours, date) == SelectSeq(hours, LAMBDA h : h.date = date)

(* for (const [date, hours] of heatingByDate) await saveHeatingSchedule(...) *)
RECURSIVE saveHeatingByDate(_, _, _, _)
saveHeatingByDate(rows, dates, hours, userId) ==
    IF dates = <<>> THEN rows
    ELSE saveHeatingByDate(
             saveHeatingSchedule(rows, Head(dates), hoursOfDate(hours, Head(dates)), userId),
             Tail(dates), hours, userId)

(* for (const [date, hours] of dhwByDate) await saveDHWSchedule(...) *)
RECURSIVE saveDHWByDate(_, _, _, _)
saveDHWByDate(rows, dates, hours, userId) ==
    IF dates = <<>> THEN rows
    ELSE saveDHWByDate(
             saveDHWSchedule(rows, Head(dates), hoursOfDate(hours, Head(dates)), userId),
             Tail(dates), hours, userId)

(* the threshold of "Vaja vähemalt 6 tundi" *)
MinPlanningPrices == 6

(* allPrices.length < 6 aborts planning *)
enoughPrices(allPrices) == Len(allPrices) >= MinPlanningPrices

(* a DailyPlanningResult with success: false *)
planningFailed(db, message, allPrices) ==
    [result |-> [success |-> FALSE, message |-> message,
                 heatingHours |-> 0, dhwHours |-> 0],
     db |-> db, allPrices |-> allPrices, heatingPlan |-> <<>>, dhwPlan |-> <<>>]

(* a db.run of a save rejects: the catch block of executeDailyPlanning     *)
(* returns success: false over the rows the earlier statements wrote       *)
savingFailed(db, allPrices, heatingHours, dhwHours) ==
    [planningFailed(db, "database error", allPrices)
        EXCEPT !.heatingPlan = heatingHours, !.dhwPlan = dhwHours]

(* a schedule save that takes a missing userId as it comes *)
acceptsAnyUser(userId) == FALSE

(* saveHeatingSchedule, saveDHWSchedule: if (!userId) throw new Error(...) *)
rejectsMissingUser(userId) == userId = NoUser

(* userId check, the saves of both plans grouped by date, cleanupOldSchedules. *)
(* Each row is written by a db.run of its own, outside any transaction:    *)
(* with "save_heating" the second statement of the first heating batch     *)
(* rejects, with "save_dhw" the first statement of the DHW save.           *)
savePlans(db, allPrices, heatingHours, dhwHours, userId, t, faults) ==
    IF rejectsMissingUser(userId) /\ heatingHours # <<>>
    THEN planningFailed(db, "userId is required", allPrices)
    ELSE IF "save_heating" \in faults /\ Len(heatingHours) > 1
    THEN savingFailed(
             [db EXCEPT !.heating_schedule =
                 saveHeatingSchedule(@, Head(heatingHours).date, <<Head(heatingHours)>>,
                                     userId)],
             allPrices, heatingHours, dhwHours)
    ELSE IF "save_dhw" \in faults /\ dhwHours # <<>>
    THEN savingFailed(
             [db EXCEPT !.heating_schedule =
                 saveHeatingByDate(@, datesOf(heatingHours, <<>>), heatingHours, userId)],
             allPrices, heatingHours, dhwHours)
    ELSE [result |-> [success |-> TRUE, message |-> "Plaan loodud",
                      heatingHours |-> Len(heatingHours), dhwHours |-> Len(dhwHours)],
          db |-> [db EXCEPT
                    !.heating_schedule =
                        cleanupOldSchedules(
                            saveHeatingByDate(@, datesOf(heatingHours, <<>>), heatingHours, userId),
                            userId, t),
                    !.dhw_schedule =
                        cleanupOldSchedules(
                            saveDHWByDate(@, datesOf(dhwHours, <<>>), dhwHours, userId),
                            userId, t)],
          allPrices |-> allPrices, heatingPlan |-> heatingHours, dhwPlan |-> dhwHours]

(* the weather of tomorrow, then both planners *)
planWithWeather(allPrices, w1, settings, userId, t, zone, meteo, faults) ==
    LET w2 == getWeatherForDate(w1.db, todayStr(t + HoursPerDay), zone, meteo, faults)
    IN  savePlans(w2.db, allPrices,
                  calculatePriceProportionalOffsets(allPrices, w1.forecasts \o w2.forecasts,
                                                    settings),
                  IF settings.dhw_enabled
                  THEN calculateDHWProportionalTemps(allPrices, settings)
                  ELSE <<>>,
                  userId, t, faults)

(* allPrices = [...remainingTodayPrices, ...tomorrowPrices] and its length check *)
planFromPrices(remainingTodayPrices, mp, settings, userId, t, zone, meteo, faults) ==
    IF ~enoughPrices(remainingTodayPrices \o mp.prices)
    THEN planningFailed(mp.db, "Pole piisavalt hinnaandmeid",
                        remainingTodayPrices \o mp.prices)
    ELSE planWithWeather(remainingTodayPrices \o mp.prices,
                         getWeatherForDate(mp.db, todayStr(t), zone, meteo, faults),
                         settings, userId, t, zone, meteo, faults)

(* a filter that keeps the hours after the current one *)
laterTodayPrices(todayPrices, t) ==
    SelectSeq(todayPrices, LAMBDA p : UTCHours(p.timestamp) > getUTCHours(t))

(* todayPrices.filter(p => new Date(p.timestamp).getUTCHours() >= currentHour) *)
remainingTodayPrices(todayPrices, t) ==
    SelectSeq(todayPrices, LAMBDA p : UTCHours(p.timestamp) >= getUTCHours(t))

(* executeDailyPlanning(db, settings, userId): never throws.  Returns the  *)
(* DailyPlanningResult, the database it leaves, and the price list used.   *)
executeDailyPlanning(db, settings, userId, t, zone, api, meteo, faults) ==
    LET tp == getTodayPrices(db, t, zone, api, faults)
    IN  IF ~tp.ok THEN planningFailed(tp.db, "Elering API error", <<>>)
        ELSE planFromPrices(
                 remainingTodayPrices(tp.prices, t),
                 getTomorrowPrices(tp.db, t, zone, api, faults),
                 settings, userId, t, zone, meteo, faults)

(* forceRunDailyPlanning / planForDate / planAvailableHours(db, userId):   *)
(* executeDailyPlanning(db, undefined, userId) resolves the settings itself *)
forceRunDailyPlanning(db, userId, t, zone, api, meteo, faults) ==
    executeDailyPlanning(db, settingsOf(db, userId), userId, t, zone, api, meteo, faults)

----------------------------------------------------------------------------
(* Fallback engine (scheduler.ts) *)

(* a search that takes the first cheapest point of the whole list *)
findCheapestAnywhere(prices, windowHours, currentTimestamp) ==
    LET cheapest ==
            CHOOSE i \in 1..Len(prices) :
                /\ \A j \in 1..Len(prices) : prices[i].price_eur_mwh <= prices[j].price_eur_mwh
                /\ \A j \in 1..(i - 1) : prices[j].price_eur_mwh > prices[i].price_eur_mwh
    IN  IF Len(prices) = 0 THEN Null
        ELSE Num([timestamp |-> prices[cheapest].timestamp,
                  price |-> eurMwhToCentKwh(prices[cheapest].price_eur_mwh)])

(* findCheapestHourInWindow: the first cheapest point with                 *)
(* now <= timestamp < now + windowHours, or null                           *)
findCheapestHourInWindow(prices, windowHours, currentTimestamp) ==
    LET windowEnd == currentTimestamp + windowHours * QuartersPerHour
        windowPrices ==
            SelectSeq(prices, LAMBDA p : p.timestamp >= currentTimestamp /\ p.timestamp < windowEnd)
        cheapest ==
            CHOOSE i \in 1..Len(windowPrices) :
                /\ \A j \in 1..Len(windowPrices) :
                      windowPrices[i].price_eur_mwh <= windowPrices[j].price_eur_mwh
                /\ \A j \in 1..(i - 1) :
                      windowPrices[j].price_eur_mwh > windowPrices[i].price_eur_mwh
    IN  IF Len(windowPrices) = 0 THEN Null
        ELSE Num([timestamp |-> windowPrices[cheapest].timestamp,
                  price |-> eurMwhToCentKwh(windowPrices[cheapest].price_eur_mwh)])

(* calculateFallbackHeatingAction *)
calculateFallbackHeatingAction(currentPriceCentKwh, currentTimestamp, allPrices, settings, waterTemp) ==
    LET minWaterTemp == settings.min_water_temp
        windowHours == settings.best_price_window_hours
        cheapestInWindow == findCheapestHourInWindow(allPrices, windowHours, currentTimestamp)
    IN  IF waterTemp # Null /\ RLe(waterTemp[1], minWaterTemp)
        THEN [action |-> "boost", reason |-> "Vee temp miinimumi juures - hadakutmine",
              targetTemperature |-> 10, currentPrice |-> currentPriceCentKwh]
        ELSE IF cheapestInWindow # Null
        THEN IF Abs(currentTimestamp - cheapestInWindow[1].timestamp) < QuartersPerHour
             THEN [action |-> "boost", reason |-> "Praegune tund on odavaim [fallback]",
                   targetTemperature |-> 10, currentPrice |-> currentPriceCentKwh]
             ELSE [action |-> "reduce", reason |-> "Ootan odavamat hinda [fallback]",
                   targetTemperature |-> -10, currentPrice |-> currentPriceCentKwh]
        ELSE IF RLt(currentPriceCentKwh, settings.low_price_threshold)
             THEN [action |-> "boost", reason |-> "Hind alla piiri [fallback]",
                   targetTemperature |-> 10, currentPrice |-> currentPriceCentKwh]
             ELSE [action |-> "reduce", reason |-> "Hinnaandmed puuduvad [fallback]",
                   targetTemperature |-> -10, currentPrice |-> currentPriceCentKwh]

(* the fallback DHW logic of executeScheduledTask *)
fallbackDHWDecision(currentPriceCentKwh, settings, tankTemp) ==
    LET minTemp == settings.dhw_min_temp
        boostTemp == settings.dhw_target_temp
    IN  IF tankTemp # Null /\ RLe(tankTemp[1], minTemp)
        THEN [action |-> "boost", reason |-> "Boileri temp miinimumi juures [fallback]",
              targetTemperature |-> boostTemp, currentPrice |-> currentPriceCentKwh]
        ELSE IF RLt(currentPriceCentKwh, settings.low_price_threshold)
        THEN [action |-> "boost", reason |-> "Madal hind [fallback]",
              targetTemperature |-> boostTemp, currentPrice |-> currentPriceCentKwh]
        ELSE [action |-> "reduce", reason |-> "Tavaline hind [fallback]",
              targetTemperature |-> minTemp, currentPrice |-> currentPriceCentKwh]

----------------------------------------------------------------------------
(* Device client (daikin.ts) *)

DHW_MIN == 30
DHW_MAX == 60

(* setDHWTemperature: Math.max(30, Math.min(60, temperature)) is what is sent *)
setDHWTemperature(dev, temperature) ==
    [dev EXCEPT !.dhw_target = RMax(FromInt(DHW_MIN), RMin(FromInt(DHW_MAX), temperature))]

(* setHeatingTemperature: the offset is sent as given *)
setHeatingTemperature(dev, offset) == [dev EXCEPT !.target_offset = offset]

(* logControlAction *)
logControlAction(db, userId, t, action, reason, old, new) ==
    [db EXCEPT !.control_log =
        Append(@, [user_id |-> userId, timestamp |-> t, action |-> action, reason |-> reason,
                   old_target_temp |-> old, new_target_temp |-> new])]

(* saveDeviceState *)
saveDeviceState(db, userId, t, state) ==
    [db EXCEPT !.device_state = Append(@, [state EXCEPT !.user_id = userId, !.timestamp = t])]

----------------------------------------------------------------------------
(* The tick (scheduler.ts, executeScheduledTask) *)

(* a planning trigger that looks at the hour alone *)
shouldPlanHourOnly(localHour, settings) == localHour = settings.planning_hour

(* const shouldPlan = localHour === settings.planning_hour || settings.planning_needs_retry *)
shouldPlan(localHour, settings) ==
    localHour = settings.planning_hour \/ settings.planning_needs_retry

(* a flag update that always clears *)
retryFlagCleared(result) == "false"

(* the value written to planning_needs_retry after a planning run *)
retryFlagAfter(result) == IF result.success THEN "false" ELSE "true"

(* thresholds that leave an offset of exactly 5 or -5 normal *)
heatingActionStrict(plannedOffset) ==
    IF plannedOffset > 5 THEN "boost" ELSE IF plannedOffset < -5 THEN "reduce" ELSE "normal"

(* plannedOffset >= 5 ? 'boost' : plannedOffset <= -5 ? 'reduce' : 'normal' *)
heatingAction(plannedOffset) ==
    IF plannedOffset >= 5 THEN "boost" ELSE IF plannedOffset <= -5 THEN "reduce" ELSE "normal"

(* plannedDhwTemp >= 50 ? 'boost' : plannedDhwTemp <= 35 ? 'reduce' : 'normal' *)
dhwAction(plannedDhwTemp) ==
    IF plannedDhwTemp >= 50 THEN "boost" ELSE IF plannedDhwTemp <= 35 THEN "reduce" ELSE "normal"

(* action: `dhw_${dhwDecision.action}` *)
dhwLogAction(action) ==
    IF action = "boost" THEN "dhw_boost"
    ELSE IF action = "reduce" THEN "dhw_reduce" ELSE "dhw_normal"

(* a comparison that always asks for a write *)
alwaysWrite(current, target) == TRUE

(* deviceState.target_offset !== decision.targetTemperature *)
needsWrite(current, target) == current # target

(* what a tick leaves for inspection: the steps it took and what it saw *)
NoTick ==
    [user |-> NoUser, t |-> 0, localHour |-> 0, planning_hour |-> 0,
     retry_before |-> FALSE, planned |-> FALSE, planningResult |-> Null,
     planPoints |-> 0, planHoursCovered |-> 0, planRowsChanged |-> FALSE,
     reached |-> "none", success |-> FALSE, reported |-> Null,
     plannedOffset |-> Null, decision |-> Null, dhwDecision |-> Null, events |-> <<>>,
     message |-> Null, threw |-> FALSE, returnedPlanning |-> Null,
     heatingPlan |-> <<>>, dhwPlan |-> <<>>,
     heatingBefore |-> {}, heatingAfter |-> {}, dhwBefore |-> {}, dhwAfter |-> {}]

(* The run of executeScheduledTask is modelled step by step.  A step takes *)
(* the run so far, s: the database, the device, the record of the run, the *)
(* current price and the decisions, and whether the run has returned.  The *)
(* arguments and the settings read at the start are in c.                  *)

(* return { success: false, ... }: the run ends here *)
halt(s, db, reached, events) ==
    [s EXCEPT !.db = db, !.halted = TRUE,
              !.out = [@ EXCEPT !.reached = reached, !.events = @ \o events]]

(* an awaited call rejects inside the try block: the exception is in flight *)
throw(s, db, events) ==
    [halt(s, db, "thrown", events) EXCEPT !.out = [@ EXCEPT !.threw = TRUE]]

(* const settings = await getUserSettings(db, userId); const localHour = now.getHours() *)
startRun(db, dev, c) ==
    [db |-> db, dev |-> dev, halted |-> FALSE,
     price |-> Null, decision |-> Null, dhwDecision |-> Null,
     out |-> [NoTick EXCEPT
                 !.user = c.userId, !.t = c.t,
                 !.localHour = getHours(c.t, c.zone),
                 !.planning_hour = c.settings.planning_hour,
                 !.retry_before = c.settings.planning_needs_retry]]

(* the read of the settings rejects *)
settingsStage(s, c) ==
    IF "settings_read" \in c.faults THEN throw(s, s.db, <<"settings_failed">>) ELSE s

(* await updateUserSetting(db, userId, 'planning_needs_retry', ...) after   *)
(* the planning result pl, and what the run records of it                  *)
recordPlanning(s, c, pl) ==
    [s EXCEPT
        !.db = IF "flag_write" \in c.faults THEN pl.db
               ELSE IF c.userId = NoUser
               THEN updateSetting(pl.db, "planning_needs_retry", retryFlagAfter(pl.result))
               ELSE updateUserSetting(pl.db, c.userId, "planning_needs_retry",
                                      retryFlagAfter(pl.result)),
        !.out = [@ EXCEPT
            !.planned = TRUE,
            !.planningResult = Num(pl.result),
            !.planPoints = Len(pl.allPrices),
            !.planHoursCovered =
                Cardinality({SlotKey(pl.allPrices[i].timestamp) :
                                i \in 1..Len(pl.allPrices)}),
            !.planRowsChanged =
                (pl.db.heating_schedule # s.db.heating_schedule
                 \/ pl.db.dhw_schedule # s.db.dhw_schedule),
            !.heatingPlan = pl.heatingPlan,
            !.dhwPlan = pl.dhwPlan,
            !.heatingBefore = s.db.heating_schedule,
            !.heatingAfter = pl.db.heating_schedule,
            !.dhwBefore = s.db.dhw_schedule,
            !.dhwAfter = pl.db.dhw_schedule,
            !.events = @ \o <<"planning">>]]

(* the write of planning_needs_retry, which may reject *)
flagOutcome(s, c) ==
    IF "flag_write" \in c.faults THEN throw(s, s.db, <<"flag_failed">>)
    ELSE [s EXCEPT !.out = [@ EXCEPT !.events = @ \o <<"retry_flag">>]]

(* if (shouldPlan) { planningResult = await executeDailyPlanning(...); ... } *)
planningStage(s, c) ==
    IF s.halted \/ ~shouldPlan(getHours(c.t, c.zone), c.settings) THEN s
    ELSE flagOutcome(
             recordPlanning(s, c,
                 executeDailyPlanning(s.db, c.settings, c.userId, c.t, c.zone,
                                      c.api, c.meteo, c.faults)),
             c)

(* Get current price *)
priceStage(s, c) ==
    LET cp == getCurrentHourPrice(s.db, c.t, c.zone, c.api, c.faults)
    IN  IF s.halted THEN s
        ELSE IF ~cp.ok THEN throw(s, cp.db, <<"price_failed">>)
        ELSE IF cp.price = Null THEN halt(s, cp.db, "no_price", <<"price">>)
        ELSE [s EXCEPT !.db = cp.db,
                       !.price = eurMwhToCentKwh(cp.price[1]),
                       !.out = [@ EXCEPT !.events = @ \o <<"price">>]]

(* userId ? getUserTokens(db, userId) : getTokens(db): is there a token *)
getTokens(db, userId) ==
    IF userId = NoUser THEN db.legacy_token ELSE userId \in db.tokens

(* getValidAccessToken, getDevices, getDeviceDetails, isWaterBasedSystem *)
deviceStage(s, c) ==
    IF s.halted THEN s
    ELSE IF ~(getTokens(s.db, c.userId) /\ "no_token" \notin c.faults)
    THEN halt(s, s.db, "no_token", <<"token">>)
    ELSE IF "daikin_read" \in c.faults
    THEN throw(s, s.db, <<"token", "read_failed">>)
    ELSE IF "no_devices" \in c.faults
    THEN halt(s, s.db, "no_devices", <<"token", "devices">>)
    ELSE IF ~s.dev.isWaterBased
    THEN halt(s, s.db, "not_water_based", <<"token", "read">>)
    ELSE [s EXCEPT !.out = [@ EXCEPT !.events = @ \o <<"token", "read">>]]

(* no planned offset: getTodayPrices, getTomorrowPrices,                   *)
(* calculateFallbackHeatingAction                                          *)
heatingFallback(s, c) ==
    LET ftoday == getTodayPrices(s.db, c.t, c.zone, c.api, c.faults)
        ftomorrow == getTomorrowPrices(ftoday.db, c.t, c.zone, c.api, c.faults)
    IN  IF ~ftoday.ok
        THEN throw(s, ftoday.db, <<"plan_lookup", "fallback_failed">>)
        ELSE [s EXCEPT
                 !.db = ftomorrow.db,
                 !.decision =
                     Num(calculateFallbackHeatingAction(
                             s.price, c.t * QuartersPerHour,
                             ftoday.prices \o ftomorrow.prices, c.settings,
                             c.reading.water_temp)),
                 !.out = [@ EXCEPT !.events = @ \o <<"plan_lookup", "fallback">>]]

(* a heating stage that leaves the plan for the fallback engine when the   *)
(* leaving water is at or below min_water_temp                             *)
heatingStageWithSafety(s, c) ==
    LET plannedOffset == getPlannedOffsetForHour(s.db.heating_schedule, todayStr(c.t),
                                                 getUTCHours(c.t), c.userId)
        tooCold == /\ c.reading.water_temp # Null
                   /\ RLe(c.reading.water_temp[1], c.settings.min_water_temp)
    IN  IF s.halted THEN s
        ELSE IF plannedOffset = Null \/ tooCold THEN heatingFallback(s, c)
        ELSE [s EXCEPT
                 !.db = [@ EXCEPT !.heating_schedule =
                            markScheduleApplied(@, todayStr(c.t), getUTCHours(c.t),
                                                c.userId, c.t)],
                 !.decision =
                     Num([action |-> heatingAction(plannedOffset[1]),
                          reason |-> "Planeeritud nihe",
                          targetTemperature |-> plannedOffset[1],
                          currentPrice |-> s.price]),
                 !.out = [@ EXCEPT !.plannedOffset = plannedOffset,
                                   !.events = @ \o <<"plan_lookup", "mark_applied">>]]

(* const plannedOffset = await getPlannedOffsetForHour(...): the planned   *)
(* offset is the decision and the row is marked, else the fallback decides *)
heatingStage(s, c) ==
    LET plannedOffset == getPlannedOffsetForHour(s.db.heating_schedule, todayStr(c.t),
                                                 getUTCHours(c.t), c.userId)
    IN  IF s.halted THEN s
        ELSE IF plannedOffset = Null THEN heatingFallback(s, c)
        ELSE [s EXCEPT
                 !.db = [@ EXCEPT !.heating_schedule =
                            markScheduleApplied(@, todayStr(c.t), getUTCHours(c.t),
                                                c.userId, c.t)],
                 !.decision =
                     Num([action |-> heatingAction(plannedOffset[1]),
                          reason |-> "Planeeritud nihe",
                          targetTemperature |-> plannedOffset[1],
                          currentPrice |-> s.price]),
                 !.out = [@ EXCEPT !.plannedOffset = plannedOffset,
                                   !.events = @ \o <<"plan_lookup", "mark_applied">>]]

(* Handle DHW: if (settings.dhw_enabled && dhwControlId) *)
dhwStage(s, c) ==
    LET plannedDhwTemp == getPlannedDHWTempForHour(s.db.dhw_schedule, todayStr(c.t),
                                                   getUTCHours(c.t), c.userId)
    IN  IF s.halted \/ ~(c.settings.dhw_enabled /\ s.dev.dhwControlId) THEN s
        ELSE IF plannedDhwTemp = Null
        THEN [s EXCEPT !.dhwDecision =
                           Num(fallbackDHWDecision(s.price, c.settings, c.reading.tank_temp))]
        ELSE [s EXCEPT
                 !.db = [@ EXCEPT !.dhw_schedule =
                            markScheduleApplied(@, todayStr(c.t), getUTCHours(c.t),
                                                c.userId, c.t)],
                 !.dhwDecision =
                     Num([action |-> dhwAction(plannedDhwTemp[1]),
                          reason |-> "Planeeritud temp",
                          targetTemperature |-> FromInt(plannedDhwTemp[1]),
                          currentPrice |-> s.price])]

(* Save current state *)
snapshotStage(s, c) ==
    IF s.halted THEN s
    ELSE IF "snapshot_write" \in c.faults
    THEN throw(s, s.db, <<"snapshot_failed">>)
    ELSE [s EXCEPT
             !.db = saveDeviceState(@, c.userId, c.t,
                        [user_id |-> c.userId, timestamp |-> c.t,
                         target_offset |-> s.dev.target_offset,
                         water_temp |-> c.reading.water_temp,
                         dhw_tank_temp |-> c.reading.tank_temp,
                         dhw_target_temp |-> s.dev.dhw_target,
                         action_taken |-> s.decision[1].action,
                         dhw_action |-> IF s.dhwDecision = Null THEN "none"
                                        ELSE s.dhwDecision[1].action]),
             !.out = [@ EXCEPT
                         !.reported = Num([target_offset |-> s.dev.target_offset,
                                           dhw_target |-> s.dev.dhw_target,
                                           water_temp |-> c.reading.water_temp,
                                           tank_temp |-> c.reading.tank_temp]),
                         !.decision = s.decision,
                         !.dhwDecision = s.dhwDecision,
                         !.events = @ \o <<"snapshot">>]]

(* a heating write that does not wait for the snapshot to be saved *)
writeHeatingUnsaved(s, c) ==
    IF s.decision = Null
       \/ ~(s.dev.climateControlId
            /\ needsWrite(s.dev.target_offset, s.decision[1].targetTemperature))
    THEN s
    ELSE [s EXCEPT
             !.dev = setHeatingTemperature(@, s.decision[1].targetTemperature),
             !.out = [@ EXCEPT !.events = @ \o <<"set_heating">>]]

(* Apply heating temperature change *)
heatingWriteStage(s, c) ==
    IF s.halted THEN s
    ELSE IF ~(s.dev.climateControlId
              /\ needsWrite(s.dev.target_offset, s.decision[1].targetTemperature))
    THEN s
    ELSE IF "set_heating" \in c.faults
    THEN throw(s, s.db, <<"set_heating_failed">>)
    ELSE IF "log_write" \in c.faults
    THEN throw([s EXCEPT !.dev = setHeatingTemperature(@, s.decision[1].targetTemperature)],
               s.db, <<"set_heating", "log_failed">>)
    ELSE [s EXCEPT
             !.dev = setHeatingTemperature(@, s.decision[1].targetTemperature),
             !.db = logControlAction(@, c.userId, c.t, s.decision[1].action,
                                     s.decision[1].reason,
                                     FromInt(s.dev.target_offset),
                                     FromInt(s.decision[1].targetTemperature)),
             !.out = [@ EXCEPT !.events = @ \o <<"set_heating", "log_heating">>]]

(* Apply DHW temperature change *)
dhwWriteStage(s, c) ==
    IF s.halted THEN s
    ELSE IF ~(s.dhwDecision # Null /\ s.dev.dhwControlId
              /\ needsWrite(s.dev.dhw_target, s.dhwDecision[1].targetTemperature))
    THEN s
    ELSE IF "set_dhw" \in c.faults
    THEN throw(s, s.db, <<"set_dhw_failed">>)
    ELSE IF "log_write" \in c.faults
    THEN throw([s EXCEPT !.dev = setDHWTemperature(@, s.dhwDecision[1].targetTemperature)],
               s.db, <<"set_dhw", "log_failed">>)
    ELSE [s EXCEPT
             !.dev = setDHWTemperature(@, s.dhwDecision[1].targetTemperature),
             !.db = logControlAction(@, c.userId, c.t,
                                     dhwLogAction(s.dhwDecision[1].action),
                                     s.dhwDecision[1].reason,
                                     s.dev.dhw_target,
                                     s.dhwDecision[1].targetTemperature),
             !.out = [@ EXCEPT !.events = @ \o <<"set_dhw", "log_dhw">>]]

(* an exception that leaves executeScheduledTask *)
rethrowError(out) == out

(* catch (error) { return { success: false, message: error.message } }:    *)
(* the planningResult of the try block is not part of this object          *)
catchError(out) ==
    [out EXCEPT !.reached = "error", !.success = FALSE, !.threw = FALSE,
                !.message = Num("error"), !.returnedPlanning = Null]

(* the object an ordinary return hands back: success, message and the      *)
(* planningResult of this run                                              *)
returned(out, reached, success) ==
    [out EXCEPT !.reached = reached, !.success = success,
                !.message = Num(reached), !.returnedPlanning = out.planningResult]

(* return { success: true, ... }, an earlier return, or the catch block *)
finishRun(s) ==
    [db |-> s.db, dev |-> s.dev,
     out |-> IF s.out.threw THEN catchError(s.out)
             ELSE IF s.halted THEN returned(s.out, s.out.reached, FALSE)
             ELSE returned(s.out, "done", TRUE)]

(* the steps in the order of the code *)
runSteps(db, dev, c) ==
    finishRun(
      dhwWriteStage(
        heatingWriteStage(
          snapshotStage(
            dhwStage(
              heatingStage(
                deviceStage(
                  priceStage(
                    planningStage(settingsStage(startRun(db, dev, c), c), c), c), c), c), c), c), c), c))

(* executeScheduledTask(db, clientId, clientSecret, userId) against the     *)
(* device dev, at hour t, with the faults and the sensor reading of this   *)
(* run.  Returns the database, the device and the record of the run.       *)
executeScheduledTask(db, dev, userId, t, zone, api, meteo, faults, reading) ==
    runSteps(db, dev,
             [userId |-> userId, t |-> t, zone |-> zone, api |-> api, meteo |-> meteo,
              faults |-> faults, reading |-> reading,
              settings |-> settingsOf(db, userId)])

----------------------------------------------------------------------------
(* Planner harness: the arguments are drawn at the start, a step applies a *)
(* planner to them.                                                        *)

PlanTimestamps == {0, 1, 4, 8, 12, 96}
PriceLevels == {100, 200, 300, 400}
Sensitivities == {1, 7, 10}
WeatherInputs ==
    {<<>>} \cup {<<[timestamp |-> 12, temperature_2m |-> c]>> : c \in {-15, -8}}
(* (dhw_min_temp, dhw_target_temp) as parseFloat may deliver them *)
DhwRanges ==
    {<<(<<30, 1>>), (<<60, 1>>)>>, <<(<<61, 2>>), (<<55, 1>>)>>,
     <<(<<40, 1>>), (<<204, 5>>)>>, <<(<<40, 1>>), (<<40, 1>>)>>}

RECURSIVE SetToSortedSeq(_)
SetToSortedSeq(S) ==
    IF S = {} THEN <<>>
    ELSE LET m == CHOOSE x \in S : \A y \in S : x <= y
         IN  <<m>> \o SetToSortedSeq(S \ {m})

(* price lists as a source returns them: ascending distinct timestamps *)
PriceLists ==
    UNION {
        {[i \in 1..Len(SetToSortedSeq(T)) |->
              [timestamp |-> SetToSortedSeq(T)[i], price_eur_mwh |-> f[SetToSortedSeq(T)[i]]]]
            : f \in [T -> PriceLevels]}
        : T \in {U \in SUBSET PlanTimestamps : Cardinality(U) >= 1 /\ Cardinality(U) <= MaxPoints}}

DefaultPlanSettings ==
    [price_sensitivity |-> 7, cold_weather_threshold |-> Num(-5),
     dhw_min_temp |-> <<30, 1>>, dhw_target_temp |-> <<60, 1>>]

PlanInit ==
    /\ pstage = "input"
    /\ pout = <<>>
    /\ now = 0 /\ tz = 0 /\ elering = {} /\ database = <<>> /\ device = <<>>
    /\ ticks = 0 /\ updates = 0 /\ last = <<>>
    /\ \E pr \in PriceLists :
          \/ \E w \in WeatherInputs, K \in Sensitivities :
                pin = [kind |-> "heating", prices |-> pr, weather |-> w,
                       settings |-> [DefaultPlanSettings EXCEPT !.price_sensitivity = K]]
          \/ \E r \in DhwRanges :
                pin = [kind |-> "dhw", prices |-> pr, weather |-> <<>>,
                       settings |-> [DefaultPlanSettings EXCEPT !.dhw_min_temp = r[1],
                                                                !.dhw_target_temp = r[2]]]

CalcHeating ==
    /\ pstage = "input"
    /\ pin.kind = "heating"
    /\ pstage' = "heating"
    /\ pout' = calculatePriceProportionalOffsets(pin.prices, pin.weather, pin.settings)
    /\ UNCHANGED <<pin, ovars>>

CalcDHW ==
    /\ pstage = "input"
    /\ pin.kind = "dhw"
    /\ pstage' = "dhw"
    /\ pout' = calculateDHWProportionalTemps(pin.prices, pin.settings)
    /\ UNCHANGED <<pin, ovars>>

PlanNext == CalcHeating \/ CalcDHW

SpecPlan == PlanInit /\ [][PlanNext]_vars

----------------------------------------------------------------------------
(* The controller and its surroundings *)

MaxTicks == 2
MaxHours == 1

Users == {"u1"}
InitialHours == {13}
Zones == {0, 2}

HourPoint(h, price) == [timestamp |-> h * QuartersPerHour, price_eur_mwh |-> price]

(* day 0 as Elering publishes it: five hourly points, or twelve            *)
(* quarter-hour points over three hours                                    *)
MarketHourly ==
    {HourPoint(13, 100), HourPoint(14, 300), HourPoint(15, 120),
     HourPoint(16, 150), HourPoint(17, 200)}
MarketQuarter ==
    {[timestamp |-> 13 * QuartersPerHour + q, price_eur_mwh |-> 400 - 30 * q] : q \in 0..11}
Markets == {MarketHourly, MarketQuarter}

(* the first hours of day 1, published during day 0 *)
TomorrowPoints == {HourPoint(24, 200), HourPoint(25, 400)}

(* the Open-Meteo forecast *)
OpenMeteo == {[timestamp |-> 13 * QuartersPerHour, temperature_2m |-> -8]}

(* what may go wrong in one run: the Elering API is down, or the Daikin    *)
(* cloud rejects a write                                                   *)
FaultScenarios ==
    {{}, {"elering"}, {"set_heating"}, {"set_dhw"}}

(* leaving water and tank temperatures as the device reports them *)
SensorReadings ==
    {[water_temp |-> Num(<<18, 1>>), tank_temp |-> Num(<<25, 1>>)],
     [water_temp |-> Num(<<40, 1>>), tank_temp |-> Num(<<45, 1>>)]}

(* the forms the settings page may post *)
SettingsForms ==
    {[dhw_enabled |-> "true", dhw_min_temp |-> <<30, 1>>, dhw_target_temp |-> <<60, 1>>],
     [dhw_enabled |-> "true", dhw_min_temp |-> <<20, 1>>, dhw_target_temp |-> <<40, 1>>]}

(* schema.sql: the rows the settings table starts with *)
DefaultSettings ==
    [k \in SettingKeys |->
        CASE k = "min_water_temp" -> Num(<<20, 1>>)
          [] k = "best_price_window_hours" -> Num(6)
          [] k = "low_price_threshold" -> Num(<<5, 1>>)
          [] k = "price_sensitivity" -> Num(7)
          [] k = "cold_weather_threshold" -> Num(<<-5, 1>>)
          [] k = "planning_hour" -> Num(15)
          [] k = "planning_needs_retry" -> Num("false")
          [] OTHER -> <<>>]

InitialDb ==
    [settings |-> DefaultSettings,
     user_settings |-> [u \in Users |-> NoRows],
     tokens |-> Users,
     legacy_token |-> FALSE,
     prices |-> {},
     weather_forecast |-> {},
     heating_schedule |-> {},
     dhw_schedule |-> {},
     control_log |-> <<>>,
     device_state |-> <<>>]

(* an Altherma with a tank *)
InitialDevice ==
    [target_offset |-> 0, dhw_target |-> <<45, 1>>,
     climateControlId |-> TRUE, dhwControlId |-> TRUE, isWaterBased |-> TRUE]

Init ==
    /\ pstage = "off" /\ pin = <<>> /\ pout = <<>>
    /\ now \in InitialHours
    /\ tz \in Zones
    /\ elering \in Markets
    /\ database = InitialDb
    /\ device = [u \in Users |-> InitialDevice]
    /\ ticks = 0
    /\ updates = 0
    /\ last = NoTick

(* one run of executeScheduledTask for an account *)
Tick(u) ==
    /\ ticks < MaxTicks
    /\ \E faults \in FaultScenarios, reading \in SensorReadings :
          \E run \in {executeScheduledTask(database, device[u], u, now, tz, elering,
                                             OpenMeteo, faults, reading)} :
              /\ database' = run.db
              /\ device' = [device EXCEPT ![u] = run.dev]
              /\ last' = run.out
    /\ ticks' = ticks + 1
    /\ UNCHANGED <<pvars, now, tz, elering, updates>>

(* the clock passes the hour *)
AdvanceHour ==
    /\ \E h0 \in InitialHours : now - h0 < MaxHours
    /\ now' = now + 1
    /\ last' = NoTick
    /\ UNCHANGED <<pvars, tz, elering, database, device, ticks, updates>>

(* Elering publishes the day-ahead prices *)
PublishTomorrow ==
    /\ ~(TomorrowPoints \subseteq elering)
    /\ elering' = elering \cup TomorrowPoints
    /\ last' = NoTick
    /\ UNCHANGED <<pvars, now, tz, database, device, ticks, updates>>

(* the updateSettings action of the settings page *)
UpdateSettings(form) ==
    /\ updates = 0
    /\ ticks = 0
    /\ database' = updateSetting(
                 updateSetting(
                     updateSetting(database, "dhw_min_temp", form.dhw_min_temp),
                     "dhw_target_temp", form.dhw_target_temp),
                 "dhw_enabled", form.dhw_enabled)
    /\ updates' = updates + 1
    /\ last' = NoTick
    /\ UNCHANGED <<pvars, now, tz, elering, device, ticks>>

Next ==
    \/ \E u \in Users : Tick(u)
    \/ AdvanceHour
    \/ PublishTomorrow
    \/ \E form \in SettingsForms : UpdateSettings(form)

Spec == Init /\ [][Next]_vars

----------------------------------------------------------------------------
(* Fallback harness: the arguments of the fallback engine are drawn at the *)
(* start, a step applies calculateFallbackHeatingAction or the fallback    *)
(* DHW logic to them.                                                      *)

MaxWindowPoints == 3    \* longest price list given to the fallback engine

(* 00:00, 00:15, 01:00, 02:00 and 06:00 UTC of day 0 *)
FallbackTimestamps == {0, 1, 4, 8, 24}
FallbackPriceLevels == {100, 200, 300}
(* currentTimestamp is the start of the current UTC hour *)
FallbackHours == {0, 4, 8}
(* best_price_window_hours *)
WindowHours == {2, 6}
(* currentPriceCentKwh: below, at and above the default low_price_threshold *)
CurrentPrices == {<<3, 1>>, <<5, 1>>, <<20, 1>>}
(* leaving water temperature: none, below, at and above min_water_temp *)
WaterTemps == {Null, Num(<<18, 1>>), Num(<<20, 1>>), Num(<<25, 1>>)}
(* tank temperature: none, below, at and above dhw_min_temp *)
TankTemps == {Null, Num(<<25, 1>>), Num(<<30, 1>>), Num(<<45, 1>>)}

(* price lists as getTodayPrices and getTomorrowPrices return them; the    *)
(* list may be empty                                                       *)
FallbackPriceLists ==
    {<<>>} \cup
    UNION {
        {[i \in 1..Len(SetToSortedSeq(T)) |->
              [timestamp |-> SetToSortedSeq(T)[i], price_eur_mwh |-> f[SetToSortedSeq(T)[i]]]]
            : f \in [T -> FallbackPriceLevels]}
        : T \in {U \in SUBSET FallbackTimestamps :
                    Cardinality(U) >= 1 /\ Cardinality(U) <= MaxWindowPoints}}

(* the settings the fallback engine reads *)
FallbackSettings ==
    {[min_water_temp |-> <<20, 1>>, best_price_window_hours |-> w,
      low_price_threshold |-> <<5, 1>>,
      dhw_min_temp |-> <<30, 1>>, dhw_target_temp |-> <<60, 1>>] : w \in WindowHours}

FallbackInit ==
    /\ pstage = "fallback_input"
    /\ pout = <<>>
    /\ now = 0 /\ tz = 0 /\ elering = {} /\ database = <<>> /\ device = <<>>
    /\ ticks = 0 /\ updates = 0 /\ last = <<>>
    /\ \E cp \in CurrentPrices, s \in FallbackSettings :
          \/ \E pr \in FallbackPriceLists, ts \in FallbackHours, wt \in WaterTemps :
                pin = [kind |-> "heating", prices |-> pr, currentTimestamp |-> ts,
                       currentPrice |-> cp, settings |-> s, temp |-> wt]
          \/ \E tt \in TankTemps :
                pin = [kind |-> "dhw", prices |-> <<>>, currentTimestamp |-> 0,
                       currentPrice |-> cp, settings |-> s, temp |-> tt]

CalcFallbackHeating ==
    /\ pstage = "fallback_input"
    /\ pin.kind = "heating"
    /\ pstage' = "fallback_heating"
    /\ pout' = calculateFallbackHeatingAction(pin.currentPrice, pin.currentTimestamp,
                                              pin.prices, pin.settings, pin.temp)
    /\ UNCHANGED <<pin, ovars>>

CalcFallbackDHW ==
    /\ pstage = "fallback_input"
    /\ pin.kind = "dhw"
    /\ pstage' = "fallback_dhw"
    /\ pout' = fallbackDHWDecision(pin.currentPrice, pin.settings, pin.temp)
    /\ UNCHANGED <<pin, ovars>>

FallbackNext == CalcFallbackHeating \/ CalcFallbackDHW

SpecFallback == FallbackInit /\ [][FallbackNext]_vars

----------------------------------------------------------------------------
(* Store harness: the persistence helpers of db.ts are called one after    *)
(* another, for two accounts, on the database the schema creates.          *)

MaxStoreOps == 3    \* calls made to the persistence helpers

StoreUsers == {"u1", "u2"}
StoreDates == {0, 1}
(* the hours of a batch: one hour, or two *)
StoreBatches == {<<13>>, <<13, 14>>}
(* keys written through updateUserSetting *)
StoreKeys == {"planning_needs_retry", "dhw_enabled"}

(* a PlannedHeatingHour and a PlannedDHWHour with value v *)
StoreHeatingHour(h, v) ==
    [hour |-> h, planned_offset |-> v, outdoor_temp_forecast |-> Null,
     price_cent_kwh |-> <<10, 1>>, reason |-> "plan"]
StoreDHWHour(h, v) ==
    [hour |-> h, planned_temp |-> 40 + v, price_cent_kwh |-> <<10, 1>>, reason |-> "plan"]

(* what the last call was, and the database it found *)
StoreOp(op, userId, date, hours, key, before) ==
    [op |-> op, user |-> userId, date |-> date, hours |-> hours, key |-> key,
     before |-> before]

StoreInit ==
    /\ pstage = "off" /\ pin = <<>> /\ pout = <<>>
    /\ now = 0 /\ tz = 0 /\ elering = {}
    /\ database = [InitialDb EXCEPT !.user_settings = [u \in StoreUsers |-> NoRows],
                                    !.tokens = StoreUsers]
    /\ device = <<>>
    /\ ticks = 0
    /\ updates = 0
    /\ last = StoreOp("none", NoUser, 0, <<>>, "", <<>>)

(* saveHeatingSchedule(db, date, hours, userId); the n-th call saves the value n *)
StoreSaveHeating(u, d, b) ==
    /\ ticks < MaxStoreOps
    /\ \E hours \in {[i \in 1..Len(b) |-> StoreHeatingHour(b[i], ticks + 1)]} :
          /\ database' = [database EXCEPT
                             !.heating_schedule = saveHeatingSchedule(@, d, hours, u)]
          /\ last' = StoreOp("save_heating", u, d, hours, "", database)
    /\ ticks' = ticks + 1
    /\ UNCHANGED <<pvars, now, tz, elering, device, updates>>

(* saveDHWSchedule(db, date, hours, userId) *)
StoreSaveDHW(u) ==
    /\ ticks < MaxStoreOps
    /\ \E hours \in {<<StoreDHWHour(13, ticks + 1)>>} :
          /\ database' = [database EXCEPT
                             !.dhw_schedule = saveDHWSchedule(@, 0, hours, u)]
          /\ last' = StoreOp("save_dhw", u, 0, hours, "", database)
    /\ ticks' = ticks + 1
    /\ UNCHANGED <<pvars, now, tz, elering, device, updates>>

(* markHeatingScheduleApplied(db, date, hour, userId) *)
StoreMarkHeating(u, d) ==
    /\ ticks < MaxStoreOps
    /\ database' = [database EXCEPT
                       !.heating_schedule = markScheduleApplied(@, d, 13, u, ticks + 1)]
    /\ last' = StoreOp("mark_heating", u, d, <<>>, "", database)
    /\ ticks' = ticks + 1
    /\ UNCHANGED <<pvars, now, tz, elering, device, updates>>

(* markDHWScheduleApplied(db, date, hour, userId) *)
StoreMarkDHW(u) ==
    /\ ticks < MaxStoreOps
    /\ database' = [database EXCEPT
                       !.dhw_schedule = markScheduleApplied(@, 0, 13, u, ticks + 1)]
    /\ last' = StoreOp("mark_dhw", u, 0, <<>>, "", database)
    /\ ticks' = ticks + 1
    /\ UNCHANGED <<pvars, now, tz, elering, device, updates>>

(* updateUserSetting(db, userId, key, 'true') *)
StoreUpdateUserSetting(u, key) ==
    /\ ticks < MaxStoreOps
    /\ database' = updateUserSetting(database, u, key, "true")
    /\ last' = StoreOp("update_user_setting", u, 0, <<>>, key, database)
    /\ ticks' = ticks + 1
    /\ UNCHANGED <<pvars, now, tz, elering, device, updates>>

StoreNext ==
    \/ \E u \in StoreUsers, d \in StoreDates, b \in StoreBatches : StoreSaveHeating(u, d, b)
    \/ \E u \in StoreUsers : StoreSaveDHW(u)
    \/ \E u \in StoreUsers, d \in StoreDates : StoreMarkHeating(u, d)
    \/ \E u \in StoreUsers : StoreMarkDHW(u)
    \/ \E u \in StoreUsers, key \in StoreKeys : StoreUpdateUserSetting(u, key)

SpecStore == StoreInit /\ [][StoreNext]_vars

----------------------------------------------------------------------------
(* The controller under failures: every awaited call of a run may reject.  *)

MaxFaultTicks == 2

(* day 0 published from 14:00 on: no point for the hour 13:00 *)
MarketLate == {HourPoint(h, 100 + 20 * (h - 14)) : h \in 14..19}
FaultMarkets == {MarketHourly, MarketLate}

(* what may go wrong in one run: the read of the settings, the Elering     *)
(* and Open-Meteo APIs, a statement of a plan save, the write of the retry *)
(* flag, the token, the Daikin cloud on reads and writes, the snapshot and *)
(* the control log                                                         *)
FaultCases ==
    {{}, {"settings_read"}, {"elering"}, {"open_meteo"}, {"save_heating"}, {"save_dhw"},
     {"flag_write"}, {"no_token"}, {"daikin_read"}, {"no_devices"}, {"snapshot_write"},
     {"set_heating"}, {"set_dhw"}, {"log_write"}}

(* an Altherma with a tank, or an air-to-air unit *)
FaultDevices == {InitialDevice, [InitialDevice EXCEPT !.isWaterBased = FALSE]}

FaultReading == [water_temp |-> Num(<<40, 1>>), tank_temp |-> Num(<<45, 1>>)]

(* the Open-Meteo forecast: the dearest hour of MarketLate, and one of day 1 *)
FaultMeteo ==
    {[timestamp |-> 19 * QuartersPerHour, temperature_2m |-> -8],
     [timestamp |-> 30 * QuartersPerHour, temperature_2m |-> 2]}

(* the forecast cache at the start: empty, or an older forecast of 19:00 *)
FaultCaches == {{}, {[timestamp |-> 19 * QuartersPerHour, temperature_2m |-> -12]}}

FaultInit ==
    /\ pstage = "off" /\ pin = <<>> /\ pout = <<>>
    /\ now \in InitialHours
    /\ tz \in Zones
    /\ elering \in FaultMarkets
    /\ \E cache \in FaultCaches :
          database = [InitialDb EXCEPT !.settings["dhw_enabled"] = Num("true"),
                                       !.weather_forecast = cache]
    /\ device \in [Users -> FaultDevices]
    /\ ticks = 0
    /\ updates = 0
    /\ last = NoTick

(* one run of executeScheduledTask for an account, with what goes wrong in it *)
FaultyTick(u) ==
    /\ ticks < MaxFaultTicks
    /\ \E faults \in FaultCases :
          \E run \in {executeScheduledTask(database, device[u], u, now, tz, elering,
                                             FaultMeteo, faults, FaultReading)} :
              /\ database' = run.db
              /\ device' = [device EXCEPT ![u] = run.dev]
              /\ last' = run.out
    /\ ticks' = ticks + 1
    /\ UNCHANGED <<pvars, now, tz, elering, updates>>

FaultNext ==
    \/ \E u \in Users : FaultyTick(u)
    \/ AdvanceHour

SpecFaults == FaultInit /\ [][FaultNext]_vars

----------------------------------------------------------------------------
(* The cron fan-out (scheduler.ts, executeScheduledTaskForAllUsers).  The  *)
(* handler awaits one account's run after the other: pstage is its         *)
(* position, pin the accounts still to process, pout the results pushed so *)
(* far, last the list it started from and, at the end, what it returned.   *)

MaxCrons == 1

FleetUsers == {"u1", "u2"}

(* what may go wrong in the run of one account *)
FleetFaults == {{}, {"elering"}, {"daikin_read"}, {"no_devices"}, {"set_heating"}}

(* getAllUsersWithTokens: SELECT ... FROM user_tokens has no ORDER BY, the *)
(* rows come in an order the database picks                                *)
getAllUsersWithTokens(db) ==
    {f \in [1..Cardinality(db.tokens) -> db.tokens] :
        \A i, j \in 1..Cardinality(db.tokens) : i # j => f[i] # f[j]}

(* results.push({ userId, success, message, decision }), or the entry the  *)
(* catch block pushes when the run throws                                  *)
userResult(userId, out) ==
    IF out.threw
    THEN [userId |-> userId, success |-> FALSE, message |-> Num("Unknown error"),
          decision |-> Undefined]
    ELSE [userId |-> userId, success |-> out.success, message |-> out.message,
          decision |-> out.decision]

(* a loop that gives up at the first account that fails *)
stopAtFailure(pending, result) == IF result.success THEN Tail(pending) ELSE <<>>

(* for (const { userId } of usersWithTokens): the next iteration follows   *)
(* whatever the result of this one                                         *)
nextUsers(pending, result) == Tail(pending)

(* return { success: results.every(r => r.success), usersProcessed, results } *)
multiUserResult(results) ==
    [success |-> \A i \in 1..Len(results) : results[i].success,
     usersProcessed |-> Len(results),
     results |-> results]

(* the frame of the handler: the list it iterates and what it returned *)
CronFrame(users, result) == [users |-> users, returned |-> result]

FleetInit ==
    /\ pstage = "cron_idle" /\ pin = <<>> /\ pout = <<>>
    /\ now \in InitialHours
    /\ tz \in Zones
    /\ elering = MarketHourly
    /\ \E T \in {FleetUsers, {"u2"}} :
          database = [InitialDb EXCEPT !.user_settings = [u \in FleetUsers |-> NoRows],
                                       !.tokens = T]
    /\ device = [u \in FleetUsers |-> InitialDevice]
    /\ ticks = 0
    /\ updates = 0
    /\ last = CronFrame(<<>>, Null)

(* const usersWithTokens = await getAllUsersWithTokens(db); const results = [] *)
CronStart ==
    /\ pstage = "cron_idle"
    /\ ticks < MaxCrons
    /\ \E users \in getAllUsersWithTokens(database) :
          /\ pin' = users
          /\ last' = CronFrame(users, Null)
    /\ pout' = <<>>
    /\ pstage' = "cron_loop"
    /\ UNCHANGED <<now, tz, elering, database, device, ticks, updates>>

(* one iteration of the loop: the run of the next account and its result *)
CronUser ==
    /\ pstage = "cron_loop"
    /\ pin # <<>>
    /\ \E faults \in FleetFaults :
          \E run \in {executeScheduledTask(database, device[Head(pin)], Head(pin), now, tz,
                                             elering, OpenMeteo, faults, FaultReading)} :
              /\ database' = run.db
              /\ device' = [device EXCEPT ![Head(pin)] = run.dev]
              /\ pout' = Append(pout, userResult(Head(pin), run.out))
              /\ pin' = nextUsers(pin, userResult(Head(pin), run.out))
    /\ UNCHANGED <<pstage, now, tz, elering, ticks, updates, last>>

(* the loop is over: the handler returns *)
CronFinish ==
    /\ pstage = "cron_loop"
    /\ pin = <<>>
    /\ last' = CronFrame(last.users, Num(multiUserResult(pout)))
    /\ pstage' = "cron_idle"
    /\ ticks' = ticks + 1
    /\ UNCHANGED <<pin, pout, now, tz, elering, database, device, updates>>

FleetNext == CronStart \/ CronUser \/ CronFinish

SpecFleet == FleetInit /\ [][FleetNext]_vars

----------------------------------------------------------------------------
(* Flat-price harness: a day on which every price point is the same, with  *)
(* hours of one, three or four points; a step applies the heating planner, *)
(* in doubles.                                                             *)

MaxFlatHours == 3

(* EUR/MWh *)
FlatPrices == {33, 100, 1234}
FlatPointsPerHour == {1, 3, 4}
FlatSensitivities == {1, 7}

FlatCounts == UNION {[1..n -> FlatPointsPerHour] : n \in 2..MaxFlatHours}

(* counts[h] points in hour h - 1 of day 0, a quarter of an hour apart *)
RECURSIVE FlatList(_, _, _)
FlatList(price, counts, h) ==
    IF h > Len(counts) THEN <<>>
    ELSE [q \in 1..counts[h] |->
             [timestamp |-> (h - 1) * QuartersPerHour + q - 1, price_eur_mwh |-> price]]
         \o FlatList(price, counts, h + 1)

FlatInit ==
    /\ pstage = "flat_input"
    /\ pout = <<>>
    /\ now = 0 /\ tz = 0 /\ elering = {} /\ database = <<>> /\ device = <<>>
    /\ ticks = 0 /\ updates = 0 /\ last = <<>>
    /\ \E price \in FlatPrices, counts \in FlatCounts, K \in FlatSensitivities,
          w \in WeatherInputs :
          pin = [prices |-> FlatList(price, counts, 1), weather |-> w,
                 settings |-> [DefaultPlanSettings EXCEPT !.price_sensitivity = K]]

(* calculatePriceProportionalOffsets on the flat day *)
CalcFlat ==
    /\ pstage = "flat_input"
    /\ pstage' = "flat_done"
    /\ \E pcd \in {pricesCentKwhDouble(pin.prices)} :
          pout' = [averages |-> pcd,
                   spreadPositive |-> spreadPositive(pcd),
                   plan |-> offsetsOfAverages(pcd, pin.weather, pin.settings)]
    /\ UNCHANGED <<pin, ovars>>

FlatNext == CalcFlat

SpecFlat == FlatInit /\ [][FlatNext]_vars

----------------------------------------------------------------------------
(* Planning twice: a caller holds one prices array, one weather array and  *)
(* one settings object and passes the same objects to a planner two times. *)

MaxRepeatPoints == 3

RepeatTimestamps == {0, 1, 4, 96}
RepeatPriceLevels == {100, 200, 300}

RepeatPriceLists ==
    UNION {
        {[i \in 1..Len(SetToSortedSeq(T)) |->
              [timestamp |-> SetToSortedSeq(T)[i], price_eur_mwh |-> f[SetToSortedSeq(T)[i]]]]
            : f \in [T -> RepeatPriceLevels]}
        : T \in {U \in SUBSET RepeatTimestamps :
                    Cardinality(U) >= 1 /\ Cardinality(U) <= MaxRepeatPoints}}

(* the arguments as a planner that sorted prices itself, not a copy of its *)
(* derived values, would leave them: dearest point first                    *)
sortedInPlace(in) ==
    [in EXCEPT !.prices =
        LET s == SortByPrice([i \in 1..Len(in.prices) |->
                        [key |-> i, price |-> <<in.prices[i].price_eur_mwh, 1>>]])
        IN  [i \in 1..Len(s) |-> in.prices[s[Len(s) + 1 - i].key]]]

(* the arguments after a call: the planners read prices, weather and       *)
(* settings, sort only arrays they created ([...priceValues].sort,         *)
(* [...rawOffsets].sort, plannedHours.sort) and assign to none of them     *)
argumentsAfterCall(in) == in

RepeatInit ==
    /\ pstage = "given"
    /\ now = 0 /\ tz = 0 /\ elering = {} /\ database = <<>> /\ device = <<>>
    /\ ticks = 0 /\ updates = 0 /\ last = <<>>
    /\ \E pr \in RepeatPriceLists :
          \/ \E w \in WeatherInputs, K \in {1, 7} :
                pin = [kind |-> "heating", prices |-> pr, weather |-> w,
                       settings |-> [DefaultPlanSettings EXCEPT !.price_sensitivity = K]]
          \/ \E r \in DhwRanges :
                pin = [kind |-> "dhw", prices |-> pr, weather |-> <<>>,
                       settings |-> [DefaultPlanSettings EXCEPT !.dhw_min_temp = r[1],
                                                                !.dhw_target_temp = r[2]]]
    /\ pout = [given |-> pin, plans |-> <<>>]

CallHeating ==
    /\ pstage \in {"given", "once"}
    /\ pin.kind = "heating"
    /\ pstage' = IF pstage = "given" THEN "once" ELSE "twice"
    /\ pout' = [pout EXCEPT !.plans = Append(@,
                    calculatePriceProportionalOffsets(pin.prices, pin.weather, pin.settings))]
    /\ pin' = argumentsAfterCall(pin)
    /\ UNCHANGED ovars

CallDHW ==
    /\ pstage \in {"given", "once"}
    /\ pin.kind = "dhw"
    /\ pstage' = IF pstage = "given" THEN "once" ELSE "twice"
    /\ pout' = [pout EXCEPT !.plans = Append(@,
                    calculateDHWProportionalTemps(pin.prices, pin.settings))]
    /\ pin' = argumentsAfterCall(pin)
    /\ UNCHANGED ovars

RepeatNext == CallHeating \/ CallDHW

SpecRepeat == RepeatInit /\ [][RepeatNext]_vars

----------------------------------------------------------------------------
(* Time zones: the process runs with a local time that is behind UTC, UTC, *)
(* or ahead of it, also by more than the hours left of the UTC day.  The   *)
(* account plans in the run of this hour, because its planning_hour is the *)
(* local hour or because an earlier planning failed.                       *)

MaxZoneTicks == 2

ZoneOffsets == {-5, 0, 2, 13}
ZoneHours == {37, 47}
PlanningCauses == {"planning_hour", "planning_needs_retry"}

(* hourly prices from two hours back to twelve hours on *)
ZoneMarket(h) == {HourPoint(k, 100 + 30 * ((k * 7) % 5)) : k \in (h - 2)..(h + 12)}

ZoneFaults == {{}, {"open_meteo"}, {"set_heating"}}

ZoneInit ==
    /\ pstage = "off" /\ pin = <<>> /\ pout = <<>>
    /\ now \in ZoneHours
    /\ tz \in ZoneOffsets
    /\ elering = ZoneMarket(now)
    /\ \E cause \in PlanningCauses, u \in Users :
          database = updateUserSetting(InitialDb, u, cause,
                         IF cause = "planning_hour" THEN getHours(now, tz) ELSE "true")
    /\ device = [u \in Users |-> InitialDevice]
    /\ ticks = 0
    /\ updates = 0
    /\ last = NoTick

ZoneTick(u) ==
    /\ ticks < MaxZoneTicks
    /\ \E faults \in ZoneFaults, reading \in SensorReadings :
          \E run \in {executeScheduledTask(database, device[u], u, now, tz, elering,
                                             FaultMeteo, faults, reading)} :
              /\ database' = run.db
              /\ device' = [device EXCEPT ![u] = run.dev]
              /\ last' = run.out
    /\ ticks' = ticks + 1
    /\ UNCHANGED <<pvars, now, tz, elering, updates>>

ZoneNext == \E u \in Users : ZoneTick(u)

SpecZones == ZoneInit /\ [][ZoneNext]_vars

----------------------------------------------------------------------------
(* The legacy deployment: no accounts.  The cron handler calls             *)
(* executeScheduledTask without userId and the planning endpoints call     *)
(* forceRunDailyPlanning, planForDate or planAvailableHours without one.   *)

MaxLegacyTicks == 3

LegacyMarkets == {MarketHourly, MarketLate}
LegacyPlanningHours == {13, 15}
LegacyFaults == {{}, {"elering"}, {"set_heating"}}

LegacyInit ==
    /\ pstage = "off" /\ pin = <<>> /\ pout = <<>>
    /\ now \in InitialHours
    /\ tz \in Zones
    /\ elering \in LegacyMarkets
    /\ \E h \in LegacyPlanningHours, token \in BOOLEAN :
          database = [updateSetting(InitialDb, "planning_hour", h)
                         EXCEPT !.legacy_token = token, !.tokens = {}]
    /\ device = [u \in Users |-> InitialDevice]
    /\ ticks = 0
    /\ updates = 0
    /\ last = NoTick

(* one run of executeScheduledTask(db, clientId, clientSecret) *)
LegacyTick ==
    /\ ticks < MaxLegacyTicks
    /\ \E u \in Users, faults \in LegacyFaults, reading \in SensorReadings :
          \E run \in {executeScheduledTask(database, device[u], NoUser, now, tz, elering,
                                             FaultMeteo, faults, reading)} :
              /\ database' = run.db
              /\ device' = [device EXCEPT ![u] = run.dev]
              /\ last' = run.out
    /\ ticks' = ticks + 1
    /\ UNCHANGED <<pvars, now, tz, elering, updates>>

(* forceRunDailyPlanning(db), planForDate(db), planAvailableHours(db) *)
ForcePlanning ==
    /\ ticks < MaxLegacyTicks
    /\ \E pl \in {forceRunDailyPlanning(database, NoUser, now, tz, elering, FaultMeteo, {})} :
          /\ database' = pl.db
          /\ last' = [NoTick EXCEPT !.t = now, !.reached = "forced", !.planned = TRUE,
                                     !.planningResult = Num(pl.result),
                                     !.planPoints = Len(pl.allPrices),
                                     !.success = pl.result.success]
    /\ ticks' = ticks + 1
    /\ UNCHANGED <<pvars, now, tz, elering, device, updates>>

LegacyNext == LegacyTick \/ ForcePlanning \/ AdvanceHour

SpecLegacy == LegacyInit /\ [][LegacyNext]_vars

----------------------------------------------------------------------------
(* Properties of the planners (checked under SpecPlan) *)

PlanOffsets(plan) == [i \in 1..Len(plan) |-> plan[i].planned_offset]
PlanHours(plan) == [i \in 1..Len(plan) |-> <<plan[i].date, plan[i].hour>>]
InputSlots(prices) ==
    {<<DateOf(prices[i].timestamp), UTCHours(prices[i].timestamp)>> : i \in 1..Len(prices)}

(* C1: a heating plan has one entry per distinct (UTC date, UTC hour) slot  *)
(* of the price input, and at least ceil(n/2) of its n entries have        *)
(* planned_offset >= 0.                                                    *)
C1_Fairness ==
    pstage = "heating" =>
        LET n == Cardinality(InputSlots(pin.prices))
        IN  /\ Len(pout) = n
            /\ Cardinality({i \in 1..Len(pout) : pout[i].planned_offset >= 0})
                   >= MathCeil(Rat(n, 2))

(* a three-slot plan over two days from sub-hourly input with a penalised hour *)
C1_Witness ==
    /\ pstage = "heating"
    /\ Len(pout) = 3
    /\ Len(pin.prices) = 4
    /\ \E i, j \in 1..Len(pout) : pout[i].date # pout[j].date
    /\ \E i \in 1..Len(pout) : pout[i].planned_offset < 0

C2_Input ==
    [kind |-> "heating",
     prices |-> <<[timestamp |-> 0, price_eur_mwh |-> 100],
                  [timestamp |-> 4, price_eur_mwh |-> 200],
                  [timestamp |-> 8, price_eur_mwh |-> 300],
                  [timestamp |-> 12, price_eur_mwh |-> 400]>>,
     weather |-> <<>>,
     settings |-> DefaultPlanSettings]

C3_HeatingBounds ==
    pstage = "heating" =>
        \A i \in 1..Len(pout) :
            /\ pout[i].planned_offset \in Int
            /\ pout[i].planned_offset >= -10
            /\ pout[i].planned_offset <= 10

(* a plan that reaches both ends of the range *)
C3_Witness ==
    /\ pstage = "heating"
    /\ pin.settings.price_sensitivity = 10
    /\ \E i, j \in 1..Len(pout) :
          pout[i].planned_offset = 10 /\ pout[j].planned_offset = -10

(* C4: every entry of every DHW plan has planned_temp within               *)
(* [dhw_min_temp, dhw_target_temp] of the settings used.                   *)
C4_DHWBounds ==
    pstage = "dhw" =>
        \A i \in 1..Len(pout) :
            /\ RLe(pin.settings.dhw_min_temp, FromInt(pout[i].planned_temp))
            /\ RLe(FromInt(pout[i].planned_temp), pin.settings.dhw_target_temp)

----------------------------------------------------------------------------
(* Properties of the tick (checked under Spec) *)

(* the persisted planning_needs_retry of an account, as the next run reads it *)
RetryFlag(d, u) == getUserSettings(d, u).planning_needs_retry

CountOf(ev, e) == Cardinality({i \in 1..Len(ev) : ev[i] = e})

C6_PlanningTrigger ==
    [][ticks' # ticks =>
          LET u == last'.user
              due == \/ getHours(now, tz) = getUserSettings(database, u).planning_hour
                     \/ RetryFlag(database, u)
          IN  /\ CountOf(last'.events, "planning") = (IF due THEN 1 ELSE 0)
              /\ last'.planned <=> due]_vars

(* planning ran on the flag alone, and another run did not plan at all *)
C6_Witness ==
    /\ last.planned
    /\ last.retry_before
    /\ last.localHour # last.planning_hour
    /\ CountOf(last.events, "planning") = 1

(* C7: when the price data handed to planning covers fewer than 6 hours,   *)
(* executeDailyPlanning returns success:false and inserts or modifies no   *)
(* plan row, also when 6 or more sub-hourly points cover fewer hours.      *)
C7_InsufficientData ==
    (last.planned /\ last.planHoursCovered < MinPlanningPrices) =>
        /\ ~last.planningResult[1].success
        /\ ~last.planRowsChanged

(* C8: in a run that reaches the decision, a plan row for (account, UTC    *)
(* date, UTC hour) fixes the target to its planned_offset, the action to   *)
(* boost from 5 up, reduce from -5 down and normal between, and is marked  *)
(* applied; the fallback engine is used iff there is no such row.          *)
C8_PlanLookup ==
    last.decision # Null =>
        LET rows == {r \in database.heating_schedule :
                        /\ r.user_id = last.user
                        /\ r.date = todayStr(last.t)
                        /\ r.hour = getUTCHours(last.t)}
            d == last.decision[1]
        IN  /\ \A r \in rows :
                  /\ d.targetTemperature = r.planned_offset
                  /\ d.action = (IF r.planned_offset >= 5 THEN "boost"
                                 ELSE IF r.planned_offset <= -5 THEN "reduce"
                                 ELSE "normal")
                  /\ r.applied_at # Null
            /\ Cardinality(rows) <= 1
            /\ (CountOf(last.events, "fallback") > 0) <=> (rows = {})

(* a planned offset of exactly -5 was applied as reduce *)
C8_Witness ==
    /\ last.decision # Null
    /\ last.plannedOffset = Num(-5)
    /\ last.decision[1].action = "reduce"
    /\ \E r \in database.heating_schedule :
          r.user_id = last.user /\ r.hour = getUTCHours(last.t) /\ r.applied_at # Null

(* C9: a heating write is issued only if the decided offset differs from   *)
(* the reported target_offset, a DHW write only if the decided DHW target  *)
(* differs from the reported one; a log entry follows the write it         *)
(* records, so a run appends no more entries than it made successful       *)
(* writes.                                                                 *)
C9_WriteOnlyOnChange ==
    [][ticks' # ticks =>
          LET ev == last'.events
              issuedHeating == CountOf(ev, "set_heating") + CountOf(ev, "set_heating_failed")
              issuedDHW == CountOf(ev, "set_dhw") + CountOf(ev, "set_dhw_failed")
              appended == Len(database'.control_log) - Len(database.control_log)
          IN  /\ issuedHeating > 0 =>
                    /\ last'.decision # Null
                    /\ last'.reported[1].target_offset # last'.decision[1].targetTemperature
              /\ issuedDHW > 0 =>
                    /\ last'.dhwDecision # Null
                    /\ last'.reported[1].dhw_target # last'.dhwDecision[1].targetTemperature
              /\ \A i \in 1..Len(ev) :
                    /\ ev[i] = "log_heating" => (i > 1 /\ ev[i - 1] = "set_heating")
                    /\ ev[i] = "log_dhw" => (i > 1 /\ ev[i - 1] = "set_dhw")
              /\ appended = CountOf(ev, "log_heating") + CountOf(ev, "log_dhw")
              /\ appended <= CountOf(ev, "set_heating") + CountOf(ev, "set_dhw")]_vars

(* a run that wrote the offset, logged it, and then lost the DHW write *)
C9_Witness ==
    /\ last.reached = "error"
    /\ CountOf(last.events, "log_heating") = 1
    /\ CountOf(last.events, "set_dhw_failed") = 1
    /\ Len(database.control_log) = 1

PlanValues(rows) == {[r EXCEPT !.applied_at = Null] : r \in rows}

(* what the device reports after the writes of a run have been applied *)
ReportsDecided(dv, run) ==
    /\ dv.target_offset = run.decision[1].targetTemperature
    /\ run.dhwDecision # Null =>
          dv.dhw_target = RMax(FromInt(DHW_MIN),
                               RMin(FromInt(DHW_MAX), run.dhwDecision[1].targetTemperature))

(* a run directly after a successful run of the same account, with the     *)
(* same readings, prices, plan values and settings                         *)
RepeatedTick ==
    /\ ticks' # ticks
    /\ last.reached = "done"
    /\ last'.reached = "done"
    /\ last'.user = last.user
    /\ ReportsDecided(device[last.user], last)
    /\ last'.reported[1].water_temp = last.reported[1].water_temp
    /\ last'.reported[1].tank_temp = last.reported[1].tank_temp
    /\ database'.prices = database.prices
    /\ PlanValues(database'.heating_schedule) = PlanValues(database.heating_schedule)
    /\ PlanValues(database'.dhw_schedule) = PlanValues(database.dhw_schedule)
    /\ getUserSettings(database', last.user) = getUserSettings(database, last.user)

Quiet ==
    /\ last'.decision = last.decision
    /\ last'.dhwDecision = last.dhwDecision
    /\ CountOf(last'.events, "set_heating") = 0
    /\ CountOf(last'.events, "set_dhw") = 0
    /\ database'.control_log = database.control_log
    /\ device' = device

(* C10: a run repeated directly after a successful run whose targets the   *)
(* device reports, with unchanged prices, plan rows and settings, decides  *)
(* the same, writes nothing and logs nothing, also for DHW targets that    *)
(* the device client clamps to [30, 60].                                   *)
C10_TickIdempotence == [][RepeatedTick => Quiet]_vars

(* the same for runs whose DHW target lies within [30, 60] *)
C10_Unclamped ==
    [][(RepeatedTick
        /\ (last.dhwDecision # Null =>
               /\ RLe(FromInt(DHW_MIN), last.dhwDecision[1].targetTemperature)
               /\ RLe(last.dhwDecision[1].targetTemperature, FromInt(DHW_MAX))))
       => Quiet]_vars

----------------------------------------------------------------------------
(* Properties of the fallback engine (checked under SpecFallback) *)

(* a <= b and a < b for the fractions a and b *)
AtOrBelow(a, b) == a[1] * b[2] <= b[1] * a[2]
StrictlyBelow(a, b) == a[1] * b[2] < b[1] * a[2]

(* the safety check of the heating fallback does not fire *)
NoSafetyTrigger ==
    pin.temp = Null \/ ~AtOrBelow(pin.temp[1], pin.settings.min_water_temp)

(* the price points of the window of w hours that starts at timestamp ts *)
WindowPoints(ts, w) ==
    {i \in 1..Len(pin.prices) :
        /\ pin.prices[i].timestamp >= ts
        /\ pin.prices[i].timestamp < ts + w * QuartersPerHour}

(* point i is strictly cheaper than every other point of the set *)
StrictlyCheapest(i, points) ==
    /\ i \in points
    /\ \A j \in points \ {i} : pin.prices[j].price_eur_mwh > pin.prices[i].price_eur_mwh

(* the decision is one of the two of the fallback engine, with its target *)
BoostOrReduce(d) ==
    \/ d.action = "boost" /\ d.targetTemperature = 10
    \/ d.action = "reduce" /\ d.targetTemperature = -10

(* C18, as claimed: for an hourly series and the window that starts at     *)
(* 00:00, with exactly one strictly cheapest hour in it and no safety      *)
(* trigger, the decision is boost when the current hour is that hour and   *)
(* reduce when the current hour is any other hour of that window that has *)
(* a price.                                                                *)
C18_AsClaimed ==
    (/\ pstage = "fallback_heating"
     /\ NoSafetyTrigger
     /\ \A i \in 1..Len(pin.prices) : pin.prices[i].timestamp % QuartersPerHour = 0
     /\ pin.currentTimestamp < pin.settings.best_price_window_hours * QuartersPerHour
     /\ \E i \in 1..Len(pin.prices) : pin.prices[i].timestamp = pin.currentTimestamp)
    => \A i \in WindowPoints(0, pin.settings.best_price_window_hours) :
          StrictlyCheapest(i, WindowPoints(0, pin.settings.best_price_window_hours))
          => pout.action = (IF pin.prices[i].timestamp = pin.currentTimestamp
                            THEN "boost" ELSE "reduce")

(* C18, amended: with no safety trigger, when one price point of the       *)
(* window that starts at the current hour is strictly cheapest, the        *)
(* decision is boost (+10) if that point lies in the current hour and      *)
(* reduce (-10) if it lies in a later hour.                                *)
C18_Amended ==
    (pstage = "fallback_heating" /\ NoSafetyTrigger)
    => \A i \in WindowPoints(pin.currentTimestamp, pin.settings.best_price_window_hours) :
          StrictlyCheapest(i, WindowPoints(pin.currentTimestamp,
                                           pin.settings.best_price_window_hours))
          => /\ BoostOrReduce(pout)
             /\ pout.action = "boost"
                <=> pin.prices[i].timestamp < pin.currentTimestamp + QuartersPerHour

(* the cheapest point of the window lies two hours ahead: reduce, although *)
(* the current price is under the threshold                                *)
C18_Witness ==
    /\ pstage = "fallback_heating"
    /\ NoSafetyTrigger
    /\ pin.currentTimestamp = 0
    /\ Len(pin.prices) = 3
    /\ \E i \in WindowPoints(0, pin.settings.best_price_window_hours) :
          /\ StrictlyCheapest(i, WindowPoints(0, pin.settings.best_price_window_hours))
          /\ pin.prices[i].timestamp = 8
    /\ pin.currentPrice = <<3, 1>>
    /\ pout.action = "reduce"

(* C19: in the fallback engine a water temperature that is present and at  *)
(* or below min_water_temp gives boost with target +10 whatever the prices,*)
(* the window and the thresholds; in the fallback DHW logic a tank         *)
(* temperature that is present and at or below dhw_min_temp gives boost    *)
(* with target dhw_target_temp.                                            *)
C19_SafetyDominates ==
    /\ (pstage = "fallback_heating" /\ pin.temp # Null
        /\ AtOrBelow(pin.temp[1], pin.settings.min_water_temp))
       => (pout.action = "boost" /\ pout.targetTemperature = 10)
    /\ (pstage = "fallback_dhw" /\ pin.temp # Null
        /\ AtOrBelow(pin.temp[1], pin.settings.dhw_min_temp))
       => (pout.action = "boost" /\ pout.targetTemperature = pin.settings.dhw_target_temp)

(* water exactly at the minimum, a price above the threshold and a cheaper *)
(* hour ahead: boost all the same                                          *)
C19_Witness ==
    /\ pstage = "fallback_heating"
    /\ pin.temp = Num(<<20, 1>>)
    /\ pin.currentPrice = <<20, 1>>
    /\ pin.currentTimestamp = 0
    /\ \E i \in WindowPoints(0, pin.settings.best_price_window_hours) :
          /\ StrictlyCheapest(i, WindowPoints(0, pin.settings.best_price_window_hours))
          /\ pin.prices[i].timestamp = 4
    /\ pout.action = "boost"

(* C20, as claimed: when no price point lies in the window that starts at  *)
(* the current hour, the decision is boost iff the current price is        *)
(* strictly below low_price_threshold, otherwise reduce.                   *)
C20_AsClaimed ==
    (/\ pstage = "fallback_heating"
     /\ WindowPoints(pin.currentTimestamp, pin.settings.best_price_window_hours) = {})
    => /\ BoostOrReduce(pout)
       /\ pout.action = "boost" <=> StrictlyBelow(pin.currentPrice, pin.settings.low_price_threshold)

(* C20, amended: the same when the safety check does not fire; the price   *)
(* list may be empty.                                                      *)
C20_Amended ==
    (/\ pstage = "fallback_heating"
     /\ NoSafetyTrigger
     /\ WindowPoints(pin.currentTimestamp, pin.settings.best_price_window_hours) = {})
    => /\ BoostOrReduce(pout)
       /\ pout.action = "boost" <=> StrictlyBelow(pin.currentPrice, pin.settings.low_price_threshold)

(* prices exist but none in the window, and the current price equals the   *)
(* threshold: reduce                                                       *)
C20_Witness ==
    /\ pstage = "fallback_heating"
    /\ NoSafetyTrigger
    /\ pin.prices # <<>>
    /\ WindowPoints(pin.currentTimestamp, pin.settings.best_price_window_hours) = {}
    /\ pin.currentPrice = pin.settings.low_price_threshold
    /\ pout.action = "reduce"

----------------------------------------------------------------------------
(* Properties of the persistence helpers (checked under SpecStore) *)

(* the rows of a plan table for one (account, date, hour) *)
SlotRows(rows, u, d, h) == {r \in rows : r.user_id = u /\ r.date = d /\ r.hour = h}

(* no two rows of the table share (account, date, hour) *)
UniqueSlots(rows) ==
    \A r1, r2 \in rows :
        (r1.user_id = r2.user_id /\ r1.date = r2.date /\ r1.hour = r2.hour) => r1 = r2

(* C14: each plan table holds at most one row per (account, date, hour);   *)
(* right after saveHeatingSchedule or saveDHWSchedule every slot of the    *)
(* saved batch has a row with the saved value and applied_at null, also    *)
(* when the slot had been marked applied before.                           *)
C14_UpsertResetsApplied ==
    /\ UniqueSlots(database.heating_schedule)
    /\ UniqueSlots(database.dhw_schedule)
    /\ last.op = "save_heating"
       => \A i \in 1..Len(last.hours) :
             \E r \in SlotRows(database.heating_schedule, last.user, last.date,
                               last.hours[i].hour) :
                 r.planned_offset = last.hours[i].planned_offset /\ r.applied_at = Null
    /\ last.op = "save_dhw"
       => \A i \in 1..Len(last.hours) :
             \E r \in SlotRows(database.dhw_schedule, last.user, last.date,
                               last.hours[i].hour) :
                 r.planned_temp = last.hours[i].planned_temp /\ r.applied_at = Null

(* a slot saved, marked applied and saved again with a second hour, while  *)
(* the other account's row of the same date and hour stays applied         *)
C14_Witness ==
    /\ last.op = "save_heating"
    /\ Len(last.hours) = 2
    /\ \E r \in SlotRows(last.before.heating_schedule, last.user, last.date, 13) :
          r.applied_at # Null
    /\ \E r \in SlotRows(database.heating_schedule, last.user, last.date, 13) :
          r.applied_at = Null /\ r.planned_offset = last.hours[1].planned_offset

(* C15: updateUserSetting for one account, whatever the key, leaves the    *)
(* Settings that getUserSettings resolves for every other account as they *)
(* were.                                                                   *)
C15_SettingsIsolation ==
    last.op = "update_user_setting"
    => \A v \in StoreUsers \ {last.user} :
          getUserSettings(database, v) = getUserSettings(last.before, v)

(* C15 for the keys of USER_SPECIFIC_SETTINGS, planning_needs_retry among them *)
C15_UserSpecificKeys ==
    (last.op = "update_user_setting" /\ last.key \in USER_SPECIFIC_SETTINGS)
    => \A v \in StoreUsers \ {last.user} :
          getUserSettings(database, v) = getUserSettings(last.before, v)


----------------------------------------------------------------------------
(* Properties of a run that ends early *)

(* C16: every run of executeScheduledTask appends exactly one row to       *)
(* device_state, whatever its outcome, the runs that end early because the *)
(* current price, the token, a device or a water-based control point is    *)
(* missing included: the table has as many rows as there were runs.        *)
C16_SnapshotEveryTick == Len(database.device_state) = ticks

(* the run could not obtain the price of the current hour: the lookup      *)
(* returned null or rejected                                               *)
PriceUnavailable(out) ==
    out.reached = "no_price" \/ CountOf(out.events, "price_failed") = 1

(* what the claim says of a run without a price *)
AbortsControl(out, db) ==
    /\ ~out.success
    /\ \A e \in {"token", "read", "devices", "snapshot", "set_heating", "set_dhw",
                  "log_heating", "log_dhw"} : CountOf(out.events, e) = 0
    /\ out.planned =>
          /\ db.heating_schedule = out.heatingAfter
          /\ db.dhw_schedule = out.dhwAfter
          /\ RetryFlag(db, out.user) = ~out.planningResult[1].success

(* C17: a run that cannot obtain the current-hour price returns            *)
(* success:false with no device read, device write or control-log entry,   *)
(* the plan rows and the retry flag of its planning stay persisted, and    *)
(* the planning result is part of the returned object.                     *)
C17_PriceUnavailable ==
    (last.user # NoUser /\ PriceUnavailable(last)) =>
        /\ AbortsControl(last, database)
        /\ last.returnedPlanning = last.planningResult

(* all of it but the returned planning result holds on both paths *)
C17_ControlAborted ==
    (last.user # NoUser /\ PriceUnavailable(last)) => AbortsControl(last, database)

(* when the lookup returns null the planning result is returned *)
C17_NullPrice ==
    (last.user # NoUser /\ last.reached = "no_price") =>
        last.returnedPlanning = last.planningResult

(* a run that planned, wrote plan rows and then found no price *)
C17_NullPriceAfterPlanning ==
    last.reached = "no_price" /\ last.planned /\ last.planRowsChanged

----------------------------------------------------------------------------
(* Properties of a planning run that fails *)

(* the persisted rows of one date batch of an account *)
BatchRows(rows, u, d) == {r \in rows : r.user_id = u /\ r.date = d}

PlanDates(plan) == {plan[i].date : i \in 1..Len(plan)}

(* the batch is as it was before the run, or it is the batch of the new plan *)
HeatingBatchWhole(out, d) ==
    \/ BatchRows(out.heatingAfter, out.user, d) = BatchRows(out.heatingBefore, out.user, d)
    \/ BatchRows(out.heatingAfter, out.user, d) =
           BatchRows(saveHeatingSchedule(out.heatingBefore, d,
                                         hoursOfDate(out.heatingPlan, d), out.user),
                     out.user, d)

DHWBatchWhole(out, d) ==
    \/ BatchRows(out.dhwAfter, out.user, d) = BatchRows(out.dhwBefore, out.user, d)
    \/ BatchRows(out.dhwAfter, out.user, d) =
           BatchRows(saveDHWSchedule(out.dhwBefore, d, hoursOfDate(out.dhwPlan, d),
                                     out.user),
                     out.user, d)

(* heating rows were written and the DHW rows of the same plan were not *)
HeatingHalfOnly(out) ==
    /\ out.dhwPlan # <<>>
    /\ out.heatingAfter # out.heatingBefore
    /\ out.dhwAfter = out.dhwBefore

(* C13: when a planning run reports failure, every date batch of the       *)
(* persisted plan is entirely the previous one or entirely the new one,    *)
(* and it never happens that only the heating half of the plan was         *)
(* written, also when a statement of a save rejects part-way.              *)
C13_NoHalfWrittenPlan ==
    (last.user # NoUser /\ last.planned /\ ~last.planningResult[1].success) =>
        /\ \A d \in PlanDates(last.heatingPlan) : HeatingBatchWhole(last, d)
        /\ \A d \in PlanDates(last.dhwPlan) : DHWBatchWhole(last, d)
        /\ ~HeatingHalfOnly(last)

(* a failure before the saves leaves every plan row as it was *)
C13_FailureBeforeSaving ==
    (last.user # NoUser /\ last.planned /\ ~last.planningResult[1].success
        /\ last.heatingPlan = <<>>) =>
        (last.heatingAfter = last.heatingBefore /\ last.dhwAfter = last.dhwBefore)

----------------------------------------------------------------------------
(* Properties of a run in which a call rejects (checked under SpecFaults) *)

(* the events a rejected call leaves in the record of the run *)
FailureEvents ==
    {"settings_failed", "flag_failed", "price_failed", "read_failed", "fallback_failed",
     "snapshot_failed", "set_heating_failed", "set_dhw_failed", "log_failed"}

Raised(out) == \E e \in FailureEvents : CountOf(out.events, e) > 0

(* C11: no exception leaves executeScheduledTask: a call that rejects      *)
(* while reading settings, writing the retry flag, fetching prices,        *)
(* talking to the device or persisting ends the run with a returned        *)
(* success:false and a message.  The next run starts from the database and *)
(* the device alone; the run keeps nothing else.                           *)
C11_FailureContained ==
    (last.user # NoUser) =>
        /\ ~last.threw
        /\ last.message # Null
        /\ Raised(last) => (~last.success /\ last.reached = "error")
        /\ last.success <=> (last.reached = "done")

(* the control log rejects after the device took the write, and the run    *)
(* after a failed run completes                                            *)
C11_Witness ==
    /\ last.reached = "error"
    /\ CountOf(last.events, "log_failed") = 1
    /\ ~last.threw /\ ~last.success
    /\ ticks = MaxFaultTicks

----------------------------------------------------------------------------
(* Properties of the fan-out (checked under SpecFleet) *)

(* the accounts of the results so far are the start of the list, in order *)
InListOrder(results, users) ==
    /\ Len(results) <= Len(users)
    /\ \A i \in 1..Len(results) : results[i].userId = users[i]

(* C12: the handler takes the accounts with tokens one after the other in  *)
(* the order of the list; when it returns there is exactly one result per  *)
(* account, usersProcessed is the number of accounts, an account that      *)
(* failed did not keep a later one from being processed, and success is    *)
(* true iff every result is a success.                                     *)
C12_FanOutIsolation ==
    /\ {last.users[i] : i \in 1..Len(last.users)} \subseteq database.tokens
    /\ pstage = "cron_loop" =>
          /\ InListOrder(pout, last.users)
          /\ pin = SubSeq(last.users, Len(pout) + 1, Len(last.users))
    /\ last.returned # Null =>
          /\ last.returned[1].usersProcessed = Cardinality(database.tokens)
          /\ Len(last.returned[1].results) = Len(last.users)
          /\ InListOrder(last.returned[1].results, last.users)
          /\ last.returned[1].success <=>
                (\A i \in 1..Len(last.users) : last.returned[1].results[i].success)

(* the first of two accounts failed, the second was processed and succeeded *)
C12_Witness ==
    /\ last.returned # Null
    /\ Len(last.users) = Cardinality(FleetUsers)
    /\ ~last.returned[1].results[1].success
    /\ last.returned[1].results[Len(last.users)].success
    /\ ~last.returned[1].success

----------------------------------------------------------------------------
(* Properties of the planner on flat prices (checked under SpecFlat) *)

AllSamePrice(prices) ==
    \A i, j \in 1..Len(prices) : prices[i].price_eur_mwh = prices[j].price_eur_mwh

(* C21: when all input prices are identical the price spread is not        *)
(* positive, so halfSpread is 1 and every deviation 0, and every           *)
(* planned_offset of the plan is exactly 0, for any K and any weather.     *)
C21_ZeroSpread ==
    (pstage = "flat_done" /\ AllSamePrice(pin.prices)) =>
        /\ ~pout.spreadPositive
        /\ \A i \in 1..Len(pout.plan) : pout.plan[i].planned_offset = 0

(* it holds when the averages of the slots come out as the same double *)
C21_EqualAverages ==
    (pstage = "flat_done" /\ ~pout.spreadPositive) =>
        \A i \in 1..Len(pout.plan) : pout.plan[i].planned_offset = 0

----------------------------------------------------------------------------
(* Cold weather relaxation *)

Half(a) == RMul(a, <<1, 2>>)
Clamp10(a) == RMax(<<-10, 1>>, RMin(<<10, 1>>, a))

(* the plan entry of a slot *)
EntryOf(plan, h) ==
    plan[CHOOSE i \in 1..Len(plan) : plan[i].date = h.date /\ plan[i].hour = h.hour]

(* slots penalised after the 50% guarantee whose forecast is exactly ten    *)
(* degrees below the cold weather threshold                                 *)
TenBelowThreshold(in) ==
    LET pc == pricesCentKwh(in.prices)
    IN  {i \in 1..Len(pc) :
            /\ RLt(fairOffset(pc[i], pc, in.settings), <<0, 1>>)
            /\ weatherByKey(in.weather, pc[i].key)
                   = Num(in.settings.cold_weather_threshold[1] - 10)}

(* C22: for a slot whose offset is negative after the fairness step and    *)
(* whose forecast is exactly cold_weather_threshold - 10, the offset after *)
(* the cold weather step is exactly half the offset before it, and the     *)
(* planned offset is that half clamped and rounded once.                   *)
C22_ColdRelaxation ==
    pstage = "heating" =>
        LET pc == pricesCentKwh(pin.prices)
            thr == pin.settings.cold_weather_threshold
        IN  \A i \in TenBelowThreshold(pin) :
                LET fair == fairOffset(pc[i], pc, pin.settings)
                    out == weatherByKey(pin.weather, pc[i].key)
                IN  /\ coldOffset(fair, out, thr) = Half(fair)
                    /\ EntryOf(pout, pc[i]).planned_offset = MathRound(Clamp10(Half(fair)))

(* a plan with such a slot where rounding before the cold step as well     *)
(* would have given another offset                                         *)
C22_Witness ==
    /\ pstage = "heating"
    /\ \E i \in TenBelowThreshold(pin) :
          LET pc == pricesCentKwh(pin.prices)
              fair == fairOffset(pc[i], pc, pin.settings)
          IN  /\ EntryOf(pout, pc[i]).planned_offset < 0
              /\ EntryOf(pout, pc[i]).planned_offset
                     # MathRound(Half(FromInt(MathRound(fair))))


----------------------------------------------------------------------------
(* Planning twice *)

----------------------------------------------------------------------------
(* Weather is best-effort *)

(* a run of the account in which the Open-Meteo fetch fails *)
FetchFailedRun(u) ==
    executeScheduledTask(database, device[u], u, now, tz, elering, FaultMeteo,
                         {"open_meteo"}, FaultReading)

(* the forecasts cached before the run for the two days planned *)
CachedForecasts ==
    getPricesForRange(database.weather_forecast,
                      startOfLocalDay(todayStr(now) * HoursPerDay, tz),
                      startOfLocalDay(todayStr(now) * HoursPerDay, tz) + 2 * DayLength)

PlanPersisted(plan, rows, u) ==
    \A i \in 1..Len(plan) :
        \E r \in rows :
            /\ r.user_id = u /\ r.date = plan[i].date /\ r.hour = plan[i].hour
            /\ r.planned_offset = plan[i].planned_offset
            /\ r.outdoor_temp_forecast = plan[i].outdoor_temp_forecast

(* the step is a run with a failed fetch that came to plan with enough prices *)
PlannedWithoutFetch(u) ==
    /\ ticks' = ticks + 1
    /\ last' = FetchFailedRun(u).out
    /\ database' = FetchFailedRun(u).db
    /\ last'.planned
    /\ last'.planPoints >= MinPlanningPrices

(* C24: when the forecast fetch fails during planning, executeDailyPlanning *)
(* still succeeds and persists a plan; each entry carries the cached        *)
(* forecast of its slot, or null when there is none, and an entry without   *)
(* forecast has no cold weather adjustment.                                 *)
C24_WeatherBestEffort ==
    [][\A u \in Users :
          PlannedWithoutFetch(u) =>
              /\ last'.planningResult[1].success
              /\ Len(last'.heatingPlan) = last'.planHoursCovered
              /\ PlanPersisted(last'.heatingPlan, database'.heating_schedule, u)
              /\ \A i \in 1..Len(last'.heatingPlan) :
                    LET e == last'.heatingPlan[i]
                    IN  /\ e.outdoor_temp_forecast
                              = weatherByKey(CachedForecasts, <<e.date, e.hour>>)
                        /\ e.outdoor_temp_forecast = Null
                              => \A k \in 1..Len(e.reason.extras) :
                                     e.reason.extras[k] # "kulm ilm"]_vars

(* after a run that planned with a failed fetch over an older cached       *)
(* forecast: the plan has an entry with the cached temperature, which a    *)
(* fetch would have replaced, and entries with null                        *)
C24_Witness ==
    /\ last.planned
    /\ last.planningResult[1].success
    /\ \E i \in 1..Len(last.heatingPlan) : last.heatingPlan[i].outdoor_temp_forecast = Num(-12)
    /\ \E i \in 1..Len(last.heatingPlan) : last.heatingPlan[i].outdoor_temp_forecast = Null
    /\ \E r \in database.heating_schedule : r.outdoor_temp_forecast = Num(-12)

----------------------------------------------------------------------------
(* DHW fairness *)

Midpoint(settings) == RDiv(RAdd(settings.dhw_min_temp, settings.dhw_target_temp), <<2, 1>>)

AtOrAboveMidpoint(plan, settings) ==
    {i \in 1..Len(plan) : RLtOrEqual(Midpoint(settings), FromInt(plan[i].planned_temp))}

(* the entries of the ceil(n/2) cheapest slots *)
CheapestHalfEntries(plan, prices) ==
    LET pc == pricesCentKwh(prices)
    IN  {i \in 1..Len(plan) : <<plan[i].date, plan[i].hour>> \in cheapestHalfKeys(pc)}

FairnessOfDHW(plan, in) ==
    /\ CheapestHalfEntries(plan, in.prices) \subseteq AtOrAboveMidpoint(plan, in.settings)
    /\ Cardinality(AtOrAboveMidpoint(plan, in.settings)) >= MathCeil(Rat(Len(plan), 2))
    /\ \A K \in Sensitivities :
          calculateDHWProportionalTemps(in.prices,
              [in.settings EXCEPT !.price_sensitivity = K]) = plan

(* C25: in a DHW plan of n entries the ceil(n/2) cheapest slots, so at     *)
(* least ceil(n/2) entries, have planned_temp >= (dhw_min_temp +            *)
(* dhw_target_temp) / 2, and the plan is the same for every                 *)
(* price_sensitivity.                                                       *)
C25_DHWFairness == pstage = "dhw" => FairnessOfDHW(pout, pin)

(* the same for bounds that are whole degrees *)
C25_WholeDegrees ==
    (pstage = "dhw" /\ IsInteger(pin.settings.dhw_min_temp)
                    /\ IsInteger(pin.settings.dhw_target_temp))
        => FairnessOfDHW(pout, pin)


----------------------------------------------------------------------------
(* Snapshot before write *)

DeviceWrites(ev) == {i \in 1..Len(ev) : ev[i] \in {"set_heating", "set_dhw"}}
Snapshots(ev) == {i \in 1..Len(ev) : ev[i] = "snapshot"}

(* C26: in a tick no setHeatingTemperature or setDHWTemperature is issued  *)
(* before the device-state snapshot of that tick is persisted, and a tick  *)
(* without a persisted snapshot, its save having failed or the run having  *)
(* ended earlier, leaves the device as it was.                             *)
C26_SnapshotBeforeWrite ==
    [][ticks' = ticks + 1 =>
          /\ \A i \in DeviceWrites(last'.events) :
                /\ \E j \in Snapshots(last'.events) : j < i
                /\ Len(database'.device_state) = Len(database.device_state) + 1
                /\ database'.device_state[Len(database'.device_state)].timestamp = now
          /\ Snapshots(last'.events) = {} => device' = device]_vars

(* a tick whose snapshot save failed and left the device alone, after a    *)
(* tick that persisted its snapshot and then wrote to the device           *)
C26_Witness ==
    /\ ticks = 2
    /\ \E i \in 1..Len(last.events) : last.events[i] = "snapshot_failed"
    /\ DeviceWrites(last.events) = {}
    /\ Len(database.device_state) = 1
    /\ Len(database.control_log) >= 1
    /\ \E u \in Users : device[u] # InitialDevice /\ device[u].isWaterBased


----------------------------------------------------------------------------
(* The cold weather threshold of an account *)

(* the stored threshold, or the default -5 *)
StoredColdThreshold(db, u) ==
    OrDefault(settingsMap(db.settings, db.user_settings[u])["cold_weather_threshold"],
              <<-5, 1>>)

BelowThreshold(e, db, u) ==
    /\ e.outdoor_temp_forecast # Null
    /\ RLt(FromInt(e.outdoor_temp_forecast[1]), StoredColdThreshold(db, u))

Relaxed(e) == \E k \in 1..Len(e.reason.extras) : e.reason.extras[k] = "kulm ilm"

(* C27: the settings resolved for a planning cycle carry the stored        *)
(* cold_weather_threshold, or -5, and in a plan produced by a tick an      *)
(* entry with a negative offset and a forecast below that threshold has    *)
(* had its penalty relaxed.                                                *)
C27_ColdThresholdReachesPlanner ==
    (last.planned /\ last.planningResult[1].success) =>
        /\ getUserSettings(database, last.user).cold_weather_threshold # Undefined
        /\ \A i \in 1..Len(last.heatingPlan) :
              (last.heatingPlan[i].planned_offset < 0
               /\ BelowThreshold(last.heatingPlan[i], database, last.user))
                  => Relaxed(last.heatingPlan[i])

(* a plan of a tick with an entry at -8 C, below the stored threshold -5,   *)
(* that keeps its whole penalty                                            *)
C27_FullPenaltyInTheCold ==
    /\ last.planned /\ last.planningResult[1].success
    /\ \E i \in 1..Len(last.heatingPlan) :
          /\ last.heatingPlan[i].outdoor_temp_forecast = Num(-8)
          /\ last.heatingPlan[i].planned_offset = -6
          /\ ~Relaxed(last.heatingPlan[i])


----------------------------------------------------------------------------
(* The plan of the same tick *)

CurrentSlot(t) == <<todayStr(t), getUTCHours(t)>>

PricedNow(api, t) == \E p \in api : SlotKey(p.timestamp) = CurrentSlot(t)

(* C28: in a tick in which planning ran and succeeded, with a price for    *)
(* the current UTC hour, the plan lookup of that tick finds the entry of   *)
(* (account, UTC date, UTC hour): the decision is the planned offset of    *)
(* the plan just made and the fallback engine does not run, whatever the   *)
(* difference between local time and UTC.                                  *)
C28_SameTickPlan ==
    (/\ last.planned
     /\ last.planningResult[1].success
     /\ PricedNow(elering, last.t)
     /\ CountOf(last.events, "plan_lookup") > 0)
        => /\ last.plannedOffset # Null
           /\ CountOf(last.events, "fallback") = 0
           /\ \E i \in 1..Len(last.heatingPlan) :
                 /\ <<last.heatingPlan[i].date, last.heatingPlan[i].hour>> = CurrentSlot(last.t)
                 /\ last.plannedOffset = Num(last.heatingPlan[i].planned_offset)

(* a tick thirteen hours ahead of UTC, on the next local date, planned and *)
(* followed its own plan                                                   *)
C28_Witness ==
    /\ tz = 13
    /\ todayStr(last.t + tz) # todayStr(last.t)
    /\ last.planned
    /\ last.planningResult[1].success
    /\ last.plannedOffset # Null
    /\ CountOf(last.events, "mark_applied") = 1


----------------------------------------------------------------------------
(* The planned path and the safety sensor *)

(* the run of the account from this state under a fault scenario, for each *)
(* reading of the sensors                                                  *)
RunWithReading(u, faults, reading) ==
    executeScheduledTask(database, device[u], u, now, tz, elering, OpenMeteo, faults, reading)

TooCold(reading, db, u) ==
    /\ reading.water_temp # Null
    /\ RLtOrEqual(reading.water_temp[1], getUserSettings(db, u).min_water_temp)

PlanRowNow(rows, u) == getPlannedOffsetForHour(rows, todayStr(now), getUTCHours(now), u)

(* a run with cold water and a run with warm water decide and write the same *)
SameDecision(cold, warm) ==
    (/\ CountOf(cold.out.events, "plan_lookup") > 0
     /\ PlanRowNow(cold.db.heating_schedule, cold.out.user) # Null)
        => /\ cold.out.decision = warm.out.decision
           /\ cold.out.decision[1].targetTemperature
                 = PlanRowNow(cold.db.heating_schedule, cold.out.user)[1]
           /\ cold.dev.target_offset = warm.dev.target_offset

(* C29: when a plan row exists for the current hour, the heating decision  *)
(* of the tick is the planned offset whatever the sensors read: with a     *)
(* leaving water temperature at or below min_water_temp the decision and   *)
(* the offset left on the device are those of a run with warm water.       *)
C29_PlannedPathIgnoresSensor ==
    \A u \in Users, faults \in FaultScenarios :
        \A cold, warm \in SensorReadings :
            (TooCold(cold, database, u) /\ ~TooCold(warm, database, u))
                => SameDecision(RunWithReading(u, faults, cold),
                                RunWithReading(u, faults, warm))

(* a tick that read water of 18 C, below min_water_temp, found a negative  *)
(* planned offset and wrote it to the device                               *)
C29_Witness ==
    /\ last.plannedOffset # Null
    /\ last.plannedOffset[1] < 0
    /\ last.reported # Null
    /\ TooCold(last.reported[1], database, last.user)
    /\ CountOf(last.events, "set_heating") = 1
    /\ device[last.user].target_offset = last.plannedOffset[1]


----------------------------------------------------------------------------
(* Planning without an account *)

LegacyRetryFlag(db) == db.settings["planning_needs_retry"] = <<"true">>

NoPlanRows(db) == db.heating_schedule = {} /\ db.dhw_schedule = {}

(* a planning without account that had 6 price points or more failed on    *)
(* the save and left no plan row                                           *)
RejectedForMissingUser ==
    (last.user = NoUser /\ last.planned /\ last.planPoints >= MinPlanningPrices)
        => /\ ~last.planningResult[1].success
           /\ last.planningResult[1].message = "userId is required"
           /\ NoPlanRows(database)

(* a tick of the legacy path that planned has set planning_needs_retry *)
PlanningTickSetsRetry ==
    (last.user = NoUser /\ last.planned /\ last.reached # "forced")
        => LegacyRetryFlag(database)

(* C30: executeDailyPlanning without an account id and with at least 6     *)
(* price points returns success false and persists no plan row, the        *)
(* schedule save rejecting the missing userId; on the legacy path of       *)
(* executeScheduledTask every tick that plans sets planning_needs_retry    *)
(* and no step ever clears it.                                             *)
C30_PlanningNeedsAccount ==
    /\ [](RejectedForMissingUser /\ PlanningTickSetsRetry)
    /\ [][LegacyRetryFlag(database) => LegacyRetryFlag(database')]_vars

(* the third tick of a legacy deployment plans because of the retry flag,  *)
(* with 6 price points, and fails again                                    *)
C30_Witness ==
    /\ ticks = 3
    /\ last.user = NoUser /\ last.planned /\ last.retry_before
    /\ last.localHour # last.planning_hour
    /\ last.planPoints >= MinPlanningPrices
    /\ ~last.planningResult[1].success
    /\ LegacyRetryFlag(database)
    /\ NoPlanRows(database)


=============================================================================
